---- MODULE Spec2Model ----
(***************************************************************************)
(* F1 telemetry comparison: the analyzer object (f1_telemetry_analysis.py), *)
(* the Plotly visualizer (f1_advanced_visuals.py), the configured runner   *)
(* (run_f1_analysis.py), the dashboard launcher (launch_dashboard.py), the *)
(* cache setup (f1_telemetry_analysis.py, test_dashboard.py) and the      *)
(* visualization viewer (view_f1_visuals.py).                              *)
(*                                                                         *)
(* Numbers.  Speeds are integers (km/h).  Distances are integers in units  *)
(* of 1/36 m, the unit in which the fallback distance Speed/3.6*0.1 of one *)
(* sample is exactly Speed.  Values computed by numpy (linspace, interp,   *)
(* the subtraction) are exact rationals <<n, d>> in lowest terms with      *)
(* d > 0: floating-point rounding is not modelled.                         *)
(*                                                                         *)
(* Objects.  A pandas DataFrame is a mutable object: frames maps the       *)
(* reference of every live DataFrame to its rows, and a record or          *)
(* combined_data holds a reference, so that a column assignment through    *)
(* one reference is seen through every alias of it.  References are        *)
(* renamed after every call in the order driver1_data, driver2_data,       *)
(* combined_data, returned value, so that states which differ only in the  *)
(* names of their objects are one state.  fetched is a history variable:   *)
(* for every live telemetry DataFrame that get_fastest_lap_telemetry       *)
(* returned, the record and the rows as they were on return.               *)
(***************************************************************************)
EXTENDS Integers, Sequences, FiniteSets, TLC

VARIABLES
    session,        \* analyzer.session: None or the provider's session object
    driver1_data,   \* analyzer.driver1_data: None or a driver lap record
    driver2_data,   \* analyzer.driver2_data: None or a driver lap record
    combined_data,  \* analyzer.combined_data: None or a DataFrame reference
    frames,         \* the live DataFrames: reference -> sequence of rows
    fetched,        \* history: reference -> the lap record as it was fetched
    visualizer,     \* None or the F1AdvancedVisualizer built on the analyzer
    dirs,           \* the directories that exist
    files,          \* the files written so far
    csv,            \* the text of the CSV file written: lines of fields
    shown,          \* the figures displayed on screen so far
    ret,            \* the last call: operation, result, messages printed
    pc,             \* run_analysis: the position of the script
    cfg,            \* run_analysis: the settings of f1_config.py
    launcher,       \* launch_dashboard: the main thread, the browser thread
    viewer          \* view_f1_visuals.main: the listing, the prompts, the tabs opened

vars == <<session, driver1_data, driver2_data, combined_data, frames, fetched,
          visualizer, dirs, files, csv, shown, ret, pc, cfg, launcher, viewer>>

analyzer_vars == <<session, driver1_data, driver2_data, combined_data, frames, fetched>>

\* Python values are tagged records, None among them
None == [kind |-> "None"]
Bool(b) == [kind |-> "bool", val |-> b]
Truthy(v) == v.kind # "None" /\ (v.kind = "bool" => v.val)

(***************************************************************************)
(* Bounds of the model.                                                    *)
(***************************************************************************)
MaxLen == 2         \* a telemetry trace has 1..MaxLen samples

(***************************************************************************)
(* Exact rational arithmetic.                                              *)
(***************************************************************************)
Abs(n) == IF n < 0 THEN -n ELSE n

RECURSIVE GCD(_, _)
GCD(a, b) == IF b = 0 THEN a ELSE GCD(b, a % b)

\* the rational n/d (d # 0) in lowest terms with a positive denominator
Norm(n, d) ==
    LET g == GCD(Abs(n), Abs(d))
        s == IF d < 0 THEN -1 ELSE 1
    IN  <<s * (n \div g), s * (d \div g)>>

Rat(i) == <<i, 1>>
RatSub(a, b) == Norm(a[1] * b[2] - b[1] * a[2], a[2] * b[2])
RatLess(a, b) == a[1] * b[2] < b[1] * a[2]
RatLeq(a, b) == a[1] * b[2] <= b[1] * a[2]

(***************************************************************************)
(* DataFrames.  A row is a record whose fields are the frame's columns.    *)
(***************************************************************************)
Column(frame, c) == [i \in 1..Len(frame) |-> frame[i][c]]

RECURSIVE SeqMin(_)
SeqMin(s) ==
    IF Len(s) = 1 THEN s[1]
    ELSE LET m == SeqMin(Tail(s)) IN IF s[1] < m THEN s[1] ELSE m

RECURSIVE SeqMax(_)
SeqMax(s) ==
    IF Len(s) = 1 THEN s[1]
    ELSE LET m == SeqMax(Tail(s)) IN IF s[1] > m THEN s[1] ELSE m

Max2(a, b) == IF a >= b THEN a ELSE b
Min2(a, b) == IF a <= b THEN a ELSE b

(***************************************************************************)
(* numpy.linspace(start, stop, num) for integers start, stop and num > 1:  *)
(* num evenly spaced points, the first start and the last stop.            *)
(***************************************************************************)
NUM_POINTS == 500

\* numpy.arange-like: the points before stop only
LinspaceOpenEnded(start, stop, num) ==
    [i \in 1..(num - 1) |-> Norm(start * (num - 1) + (i - 1) * (stop - start), num - 1)]

Linspace(start, stop, num) ==
    [i \in 1..num |-> Norm(start * (num - 1) + (i - 1) * (stop - start), num - 1)]

(***************************************************************************)
(* numpy.interp(x, xp, fp) for xp in non-decreasing order: fp[1] left of   *)
(* xp, fp[last] right of it, fp[j] at a sample point, and between samples  *)
(* j and j+1 the value slope * (x - xp[j]) + fp[j], where j is the last    *)
(* index with xp[j] <= x.                                                  *)
(***************************************************************************)
\* between two samples, the segment is entered from the sample on the right
InterpAtFromRight(x, xp, fp) ==
    LET last == Len(xp)
    IN  IF RatLess(Rat(xp[last]), x) THEN Rat(fp[last])
        ELSE IF RatLess(x, Rat(xp[1])) THEN Rat(fp[1])
        ELSE LET j == CHOOSE k \in 1..last :
                          /\ RatLeq(Rat(xp[k]), x)
                          /\ \A m \in (k + 1)..last : RatLess(x, Rat(xp[m]))
             IN  IF j = last THEN Rat(fp[j])
                 ELSE IF Rat(xp[j]) = x THEN Rat(fp[j])
                 ELSE LET dx == xp[j + 1] - xp[j]
                          dy == fp[j + 1] - fp[j]
                      IN  Norm(fp[j + 1] * (x[2] * dx) + (x[1] - xp[j] * x[2]) * dy,
                               x[2] * dx)

InterpAt(x, xp, fp) ==
    LET last == Len(xp)
    IN  IF RatLess(Rat(xp[last]), x) THEN Rat(fp[last])
        ELSE IF RatLess(x, Rat(xp[1])) THEN Rat(fp[1])
        ELSE LET j == CHOOSE k \in 1..last :
                          /\ RatLeq(Rat(xp[k]), x)
                          /\ \A m \in (k + 1)..last : RatLess(x, Rat(xp[m]))
             IN  IF j = last THEN Rat(fp[j])
                 ELSE IF Rat(xp[j]) = x THEN Rat(fp[j])
                 ELSE LET dx == xp[j + 1] - xp[j]
                          dy == fp[j + 1] - fp[j]
                      IN  Norm(fp[j] * (x[2] * dx) + (x[1] - xp[j] * x[2]) * dy,
                               x[2] * dx)

Interp(x, xp, fp) == [i \in 1..Len(x) |-> InterpAt(x[i], xp, fp)]

(***************************************************************************)
(* The heap of DataFrames.                                                 *)
(***************************************************************************)
NewRef(heap) == CHOOSE r \in 1..(Cardinality(DOMAIN heap) + 1) : r \notin DOMAIN heap

NoFrame == [record |-> None, rows |-> <<>>]

\* no copy: the same object under another name
CopyFrameAlias(heap, ref) == [ref |-> ref, heap |-> heap]

\* DataFrame.copy(): a new object with the same rows
CopyFrame(heap, ref) ==
    LET r == NewRef(heap) IN [ref |-> r, heap |-> heap @@ (r :> heap[ref])]

\* the history of a heap: nothing is recorded for a DataFrame that was not fetched
History(heap, fetch) ==
    [r \in DOMAIN heap |-> IF r \in DOMAIN fetch THEN fetch[r] ELSE NoFrame]

\* frame[col] = value, for a scalar value or (values) one value per row
SetColumn(frame, col, values) ==
    [i \in 1..Len(frame) |->
        [c \in DOMAIN frame[i] \cup {col} |->
            IF c = col THEN values[i] ELSE frame[i][c]]]

\* the frames concatenated in the other order
ConcatReversed(a, b) == b \o a

\* pandas.concat([a, b], ignore_index=True)
Concat(a, b) == a \o b

Broadcast(frame, value) == [i \in 1..Len(frame) |-> value]

\* numpy.cumsum
RECURSIVE CumSum(_)
CumSum(s) ==
    IF Len(s) = 0 THEN <<>>
    ELSE LET front == CumSum(SubSeq(s, 1, Len(s) - 1))
         IN  Append(front, (IF Len(front) = 0 THEN 0 ELSE front[Len(front)]) + s[Len(s)])

\* the DataFrame a value refers to, if any
RefsOf(v) ==
    IF v.kind = "record" THEN <<v.telemetry>>
    ELSE IF v.kind = "frame" THEN <<v.ref>>
    ELSE <<>>

RECURSIVE Flatten(_)
Flatten(ss) == IF Len(ss) = 0 THEN <<>> ELSE ss[1] \o Flatten(Tail(ss))

RECURSIVE Distinct(_)
Distinct(s) ==
    IF Len(s) = 0 THEN <<>>
    ELSE LET front == Distinct(SubSeq(s, 1, Len(s) - 1))
             x == s[Len(s)]
         IN  IF \E i \in 1..Len(front) : front[i] = x THEN front ELSE Append(front, x)

\* the live references, in the order of the values that hold them
LiveRefs(values) == Distinct(Flatten([i \in 1..Len(values) |-> RefsOf(values[i])]))

IndexOf(s, x) == CHOOSE i \in 1..Len(s) : s[i] = x

Rename(v, live) ==
    IF v.kind = "record" THEN [v EXCEPT !.telemetry = IndexOf(live, @)]
    ELSE IF v.kind = "frame" THEN [v EXCEPT !.ref = IndexOf(live, @)]
    ELSE v

\* the heap with the DataFrames nothing refers to freed, the others renamed
Collect(heap, live) == [i \in 1..Len(live) |-> heap[live[i]]]

(***************************************************************************)
(* The data provider (fastf1).  A lap the provider can return: lap time,   *)
(* lap number, team and the telemetry rows, with or without a Distance     *)
(* column.  What a call to the provider does is an input of the action     *)
(* that makes it.                                                          *)
(***************************************************************************)
SpeedProfiles == {"const200", "const180", "linear", "brake"}

\* the distances a sample can be taken at
Distances == 0..3

\* the speed of sample i, at distance d, of a lap driven on a speed profile
SpeedOf(profile, d, i) ==
    CASE profile = "const200" -> 200
      [] profile = "const180" -> 180
      [] profile = "linear" -> 120 + 20 * d
      [] profile = "brake" -> IF i % 2 = 1 THEN 200 ELSE 0

\* the samples of a trace are taken at increasing distances, as numpy.interp
\* requires of its xp
Increasing(s) == \A i \in 1..(Len(s) - 1) : s[i] < s[i + 1]

DistSeqs ==
    {s \in UNION {[1..n -> Distances] : n \in 1..MaxLen} : Increasing(s)}

Trace(ds, profile) ==
    [i \in 1..Len(ds) |-> [Distance |-> ds[i], Speed |-> SpeedOf(profile, ds[i], i)]]

Traces(profiles) == {Trace(ds, p) : ds \in DistSeqs, p \in profiles}



Lap(time, number, team, tel) ==
    [kind |-> "lap", LapTime |-> time, LapNumber |-> number, Team |-> team,
     telemetry |-> tel]

\* the fastest laps the session of the analyzer holds
Laps ==
    {Lap(70, 1, "Red Bull Racing", Trace(<<0, 3>>, "const200")),
     Lap(71, 2, "Ferrari", <<[Speed |-> 2], [Speed |-> 0], [Speed |-> 1]>>)}

\* what the lap retrieval of one driver meets at the provider
LapOutcomes == {[kind |-> "no_laps"], [kind |-> "empty"], [kind |-> "no_telemetry"]} \cup Laps

(***************************************************************************)
(* F1TelemetryAnalyzer.  A method is an operator from the analyzer (self:  *)
(* its four attributes and the heap) and the method's inputs to the        *)
(* analyzer after the call, the value returned, the messages printed, the  *)
(* provider calls made, the files written, the text of the CSV file        *)
(* written, the figures displayed, and                                     *)
(* whether an exception left the method.                                   *)
(***************************************************************************)
Self == [session |-> session, driver1_data |-> driver1_data,
         driver2_data |-> driver2_data, combined_data |-> combined_data,
         frames |-> frames, fetched |-> fetched]

Return(self, value, printed, calls) ==
    [self |-> self, value |-> value, printed |-> printed, calls |-> calls,
     raised |-> FALSE, wrote |-> {}, csv |-> <<>>, showed |-> <<>>]

Raise(self, printed, calls) ==
    [self |-> self, value |-> None, printed |-> printed, calls |-> calls,
     raised |-> TRUE, wrote |-> {}, csv |-> <<>>, showed |-> <<>>]

\* no except clause: the exception leaves the method
NoCatch(body, msg, sentinel) == body

\* try: body / except Exception: print(msg); return sentinel
Catch(body, msg, sentinel) ==
    IF body.raised
    THEN [body EXCEPT !.raised = FALSE, !.value = sentinel,
                      !.printed = Append(@, msg)]
    ELSE body

\* os.makedirs(d): the directory d is created; FileExistsError if it is there
makedirs(ds, d) == [dirs |-> ds \cup {d}, raised |-> d \in ds]

\* os.makedirs(d) without asking whether d exists
MakeDirsUnguarded(ds, d) == makedirs(ds, d)

\* if not os.path.exists(d): os.makedirs(d)
EnsureDir(ds, d) ==
    IF d \notin ds THEN makedirs(ds, d) ELSE [dirs |-> ds, raised |-> FALSE]

\* a file is named by its directory and its name; "." is the working directory
File(dir, name) == <<dir, name>>

Loaded == [kind |-> "session", loaded |-> TRUE]
Unloaded == [kind |-> "session", loaded |-> FALSE]

load_session_body(self, get_ok, load_ok) ==
    IF ~get_ok
    THEN Raise(self, <<"Loading session">>, <<"get_session">>)
    ELSE IF ~load_ok
    THEN Raise([self EXCEPT !.session = Unloaded], <<"Loading session">>,
               <<"get_session", "load">>)
    ELSE Return([self EXCEPT !.session = Loaded], Bool(TRUE),
                <<"Loading session", "Session loaded">>, <<"get_session", "load">>)

load_session(self, get_ok, load_ok) ==
    Catch(load_session_body(self, get_ok, load_ok), "Error loading session", Bool(FALSE))

get_fastest_lap_telemetry_body(self, driver, lap) ==
    IF self.session.kind = "None" \/ ~self.session.loaded
    THEN Raise(self, <<>>, <<>>)
    ELSE IF lap.kind = "no_laps" THEN Raise(self, <<>>, <<"pick_driver">>)
    ELSE IF lap.kind = "empty" THEN Raise(self, <<>>, <<"pick_driver", "pick_fastest">>)
    ELSE IF lap.kind = "no_telemetry"
    THEN Raise(self, <<>>, <<"pick_driver", "pick_fastest", "get_telemetry">>)
    ELSE LET tel == lap.telemetry
             telemetry ==
                 IF "Distance" \notin DOMAIN tel[1]
                 THEN SetColumn(tel, "Distance", CumSum(Column(tel, "Speed")))
                 ELSE tel
             r == NewRef(self.frames)
             driver_info == [kind |-> "record", driver |-> driver,
                             lap_time |-> lap.LapTime, lap_number |-> lap.LapNumber,
                             telemetry |-> r, team |-> lap.Team]
         IN  Return([self EXCEPT !.frames = @ @@ (r :> telemetry),
                                 !.fetched = @ @@ (r :> [record |-> driver_info,
                                                         rows |-> telemetry])],
                    driver_info,
                    <<"Fastest lap">>, <<"pick_driver", "pick_fastest", "get_telemetry">>)

get_fastest_lap_telemetry(self, driver, lap) ==
    Catch(get_fastest_lap_telemetry_body(self, driver, lap), "Error getting telemetry", None)

prepare_combined_data(self) ==
    LET c1 == CopyFrame(self.frames, self.driver1_data.telemetry)
        c2 == CopyFrame(c1.heap, self.driver2_data.telemetry)
        h1 == [c2.heap EXCEPT ![c1.ref] =
                  SetColumn(@, "Driver", Broadcast(@, self.driver1_data.driver))]
        h2 == [h1 EXCEPT ![c2.ref] =
                  SetColumn(@, "Driver", Broadcast(@, self.driver2_data.driver))]
        r == NewRef(h2)
    IN  Return([self EXCEPT !.frames = h2 @@ (r :> Concat(h2[c1.ref], h2[c2.ref])),
                            !.combined_data = [kind |-> "frame", ref |-> r]],
               None, <<"Combined telemetry data prepared">>, <<>>)

\* the comparison goes on as if both records were there
TelemetryMissingIgnored(self, printed, calls) == Return(self, Bool(TRUE), printed, calls)

\* print the diagnostic; return False
TelemetryMissing(self, printed, calls) ==
    Return(self, Bool(FALSE), Append(printed, "Failed to get telemetry data"), calls)

\* without the test of self.session: the laps are asked for in any case
CompareDriversUnguarded(self, driver1, driver2, lap1, lap2) ==
    LET f1 == get_fastest_lap_telemetry(self, driver1, lap1)
        s1 == [f1.self EXCEPT !.driver1_data = f1.value]
        f2 == get_fastest_lap_telemetry(s1, driver2, lap2)
        s2 == [f2.self EXCEPT !.driver2_data = f2.value]
        printed == <<"Analyzing fastest laps">> \o f1.printed \o f2.printed
    IN  IF ~Truthy(s2.driver1_data) \/ ~Truthy(s2.driver2_data)
        THEN TelemetryMissing(s2, printed, f1.calls \o f2.calls)
        ELSE LET p == prepare_combined_data(s2)
             IN  Return(p.self, Bool(TRUE), printed \o p.printed, f1.calls \o f2.calls)

compare_drivers(self, driver1, driver2, lap1, lap2) ==
    IF ~Truthy(self.session)
    THEN Return(self, Bool(FALSE), <<"No session loaded">>, <<>>)
    ELSE LET f1 == get_fastest_lap_telemetry(self, driver1, lap1)
             s1 == [f1.self EXCEPT !.driver1_data = f1.value]
             f2 == get_fastest_lap_telemetry(s1, driver2, lap2)
             s2 == [f2.self EXCEPT !.driver2_data = f2.value]
             printed == <<"Analyzing fastest laps">> \o f1.printed \o f2.printed
             calls == f1.calls \o f2.calls
         IN  IF f1.raised THEN Raise(f1.self, <<"Analyzing fastest laps">> \o f1.printed, f1.calls)
             ELSE IF f2.raised THEN Raise(f2.self, printed, calls)
             ELSE IF ~Truthy(s2.driver1_data) \/ ~Truthy(s2.driver2_data)
             THEN TelemetryMissing(s2, printed, calls)
             ELSE LET p == prepare_combined_data(s2)
                  IN  Return(p.self, Bool(TRUE), printed \o p.printed, calls)

RECURSIVE SeqSum(_)
SeqSum(s) == IF Len(s) = 0 THEN 0 ELSE s[1] + SeqSum(Tail(s))

\* the speeds are those of both drivers' samples, taken from combined_data
DriverSummaryOfCombined(self, d) ==
    LET speed == Column(self.frames[IF self.combined_data.kind = "frame"
                                    THEN self.combined_data.ref
                                    ELSE d.telemetry], "Speed")
    IN  [name |-> d.driver, team |-> d.team, lap_time |-> d.lap_time,
         lap_number |-> d.lap_number, max_speed |-> SeqMax(speed),
         avg_speed |-> Norm(SeqSum(speed), Len(speed))]

\* the summary entry of one driver: Series.max() and Series.mean() of Speed
DriverSummary(self, d) ==
    LET speed == Column(self.frames[d.telemetry], "Speed")
    IN  [name |-> d.driver, team |-> d.team, lap_time |-> d.lap_time,
         lap_number |-> d.lap_number, max_speed |-> SeqMax(speed),
         avg_speed |-> Norm(SeqSum(speed), Len(speed))]

\* driver1 also on equal lap times
FasterDriverOrLevel(time_diff, driver1, driver2) ==
    IF time_diff <= 0 THEN driver1 ELSE driver2

\* driver1 if time_diff < 0 else driver2
FasterDriver(time_diff, driver1, driver2) ==
    IF time_diff < 0 THEN driver1 ELSE driver2

get_comparison_summary(self) ==
    IF ~Truthy(self.driver1_data) \/ ~Truthy(self.driver2_data)
    THEN Return(self, None, <<>>, <<>>)
    ELSE LET time_diff == self.driver1_data.lap_time - self.driver2_data.lap_time
         IN  Return(self,
                    [kind |-> "summary",
                     driver1 |-> DriverSummary(self, self.driver1_data),
                     driver2 |-> DriverSummary(self, self.driver2_data),
                     time_difference_seconds |-> time_diff,
                     faster_driver |-> FasterDriver(time_diff, self.driver1_data.driver,
                                                    self.driver2_data.driver)],
                    <<>>, <<>>)

(***************************************************************************)
(* DataFrame.to_csv(filename, index=False).  The text is a sequence of     *)
(* lines, a line a sequence of fields, a field a sequence of characters    *)
(* (a text cell is one token).  The first line names the columns; a cell   *)
(* is written after the dtype of its column: an integer in decimal, a      *)
(* float as Python's repr of it, a bool as True or False, text as it is.   *)
(* A float is a rational <<n, d>> whose denominator is a power of two; for *)
(* the floats of the model repr is the finite decimal expansion, with at   *)
(* least one digit after the point.                                        *)
(***************************************************************************)
ColumnOrder == <<"Speed", "Brake", "Distance", "X", "Driver">>

DType(col) ==
    CASE col = "Speed" -> "int64"
      [] col = "Distance" -> "int64"
      [] col = "X" -> "float64"
      [] col = "Brake" -> "bool"
      [] col = "Driver" -> "object"

Digits == <<"0", "1", "2", "3", "4", "5", "6", "7", "8", "9">>

RECURSIVE NatStr(_)
NatStr(n) ==
    IF n < 10 THEN <<Digits[n + 1]>>
    ELSE Append(NatStr(n \div 10), Digits[(n % 10) + 1])

IntStr(n) == IF n < 0 THEN <<"-">> \o NatStr(-n) ELSE NatStr(n)

\* the digits of r/d after the point, for 0 <= r < d
RECURSIVE FracStr(_, _)
FracStr(r, d) ==
    IF r = 0 THEN <<>>
    ELSE <<Digits[((r * 10) \div d) + 1]>> \o FracStr((r * 10) % d, d)

\* float_format='%.2f': two digits after the point, rounded half up
FloatStrTwoDecimals(x) ==
    LET m == (2 * Abs(x[1]) * 100 + x[2]) \div (2 * x[2])
    IN  (IF x[1] < 0 /\ m > 0 THEN <<"-">> ELSE <<>>)
            \o NatStr(m \div 100) \o <<".">>
            \o <<Digits[((m % 100) \div 10) + 1], Digits[(m % 10) + 1]>>

\* repr(x)
FloatStr(x) ==
    LET whole == Abs(x[1]) \div x[2]
        r == Abs(x[1]) % x[2]
    IN  (IF x[1] < 0 THEN <<"-">> ELSE <<>>)
            \o NatStr(whole) \o <<".">>
            \o (IF r = 0 THEN <<"0">> ELSE FracStr(r, x[2]))

CellStr(col, v) ==
    CASE DType(col) = "int64" -> IntStr(v)
      [] DType(col) = "float64" -> FloatStr(v)
      [] DType(col) = "bool" -> IF v THEN <<"True">> ELSE <<"False">>
      [] DType(col) = "object" -> <<v>>

\* the columns of a frame, in their order
Columns(frame) == SelectSeq(ColumnOrder, LAMBDA c : c \in DOMAIN frame[1])

to_csv(frame) ==
    LET cols == Columns(frame)
    IN  <<[j \in 1..Len(cols) |-> <<cols[j]>>]>>
            \o [i \in 1..Len(frame) |->
                   [j \in 1..Len(cols) |-> CellStr(cols[j], frame[i][cols[j]])]]

\* the file is opened before combined_data is looked at
SaveDataAlways(self, filename) ==
    IF self.combined_data.kind # "None"
    THEN [Return(self, None, <<"Data saved">>, <<>>)
             EXCEPT !.wrote = {File(".", filename)},
                    !.csv = to_csv(self.frames[self.combined_data.ref])]
    ELSE [Return(self, None, <<"No data to save">>, <<>>)
             EXCEPT !.wrote = {File(".", filename)}]

save_data(self, filename) ==
    IF self.combined_data.kind # "None"
    THEN [Return(self, None, <<"Data saved">>, <<>>)
             EXCEPT !.wrote = {File(".", filename)},
                    !.csv = to_csv(self.frames[self.combined_data.ref])]
    ELSE Return(self, None, <<"No data to save">>, <<>>)

\* plt.savefig is reached whatever save_plot is
PlotAlwaysSaved(self, save_plot) ==
    IF ~Truthy(self.driver1_data) \/ ~Truthy(self.driver2_data)
    THEN Return(self, None, <<"No data to plot">>, <<>>)
    ELSE [Return(self, None, <<"Plot saved">>, <<>>)
             EXCEPT !.wrote = {File(".", "f1_speed_comparison.png")},
                    !.showed = <<"speed_comparison">>]

plot_speed_comparison(self, save_plot) ==
    IF ~Truthy(self.driver1_data) \/ ~Truthy(self.driver2_data)
    THEN Return(self, None, <<"No data to plot">>, <<>>)
    ELSE [Return(self, None, IF save_plot THEN <<"Plot saved">> ELSE <<>>, <<>>)
             EXCEPT !.wrote = IF save_plot THEN {File(".", "f1_speed_comparison.png")} ELSE {},
                    !.showed = <<"speed_comparison">>]

plot_advanced_visuals(self) ==
    IF ~Truthy(self.driver1_data) \/ ~Truthy(self.driver2_data)
    THEN Return(self, None, <<"No data to plot">>, <<>>)
    ELSE [Return(self, None, <<>>, <<>>)
             EXCEPT !.showed = <<"speed_vs_distance", "gear_heatmap_over_track">>]

(***************************************************************************)
(* F1AdvancedVisualizer.  A create_* method returns None or the figure,    *)
(* displays it, and writes its HTML file when save_html is true.           *)
(***************************************************************************)
OUTPUT_DIR == "f1_visualizations"

HtmlFile(name) == File(OUTPUT_DIR, name)

\* fig.show(); if save_html: fig.write_html(filename); return fig
ShowAndSave(self, figure, file, save_html) ==
    [Return(self, figure, IF save_html THEN <<"Plot saved">> ELSE <<>>, <<>>)
        EXCEPT !.wrote = IF save_html THEN {HtmlFile(file)} ELSE {},
               !.showed = <<figure.name>>]

NoData(self, msg) == Return(self, None, <<msg>>, <<>>)

create_speed_distance_plot(self, save_html) ==
    IF self.combined_data.kind = "None"
    THEN NoData(self, "No data available for plotting")
    ELSE ShowAndSave(self, [kind |-> "figure", name |-> "speed_distance"],
                     "speed_distance_comparison.html", save_html)

\* the plot is given up only when both lap records are missing
TrackPositionUnlessBothMissing(self, save_html) ==
    IF ~Truthy(self.driver1_data) /\ ~Truthy(self.driver2_data)
    THEN NoData(self, "No driver data available for plotting")
    ELSE ShowAndSave(self, [kind |-> "figure", name |-> "track_position"],
                     "track_position_speed.html", save_html)

create_track_position_plot(self, save_html) ==
    IF ~Truthy(self.driver1_data) \/ ~Truthy(self.driver2_data)
    THEN NoData(self, "No driver data available for plotting")
    ELSE ShowAndSave(self, [kind |-> "figure", name |-> "track_position"],
                     "track_position_speed.html", save_html)

create_gear_heatmap(self, save_html) ==
    IF ~Truthy(self.driver1_data) \/ ~Truthy(self.driver2_data)
    THEN NoData(self, "No driver data available for plotting")
    ELSE ShowAndSave(self, [kind |-> "figure", name |-> "gear_heatmap"],
                     "gear_heatmap.html", save_html)

create_throttle_brake_analysis(self, save_html) ==
    IF self.combined_data.kind = "None"
    THEN NoData(self, "No data available for plotting")
    ELSE ShowAndSave(self, [kind |-> "figure", name |-> "throttle_brake"],
                     "throttle_brake_analysis.html", save_html)

\* the start of the union of the two ranges instead of their intersection
MinDistanceOfUnion(tel1, tel2) ==
    Min2(SeqMin(Column(tel1, "Distance")), SeqMin(Column(tel2, "Distance")))

\* the common distance grid of two telemetry frames
MinDistance(tel1, tel2) ==
    Max2(SeqMin(Column(tel1, "Distance")), SeqMin(Column(tel2, "Distance")))

MaxDistance(tel1, tel2) ==
    Min2(SeqMax(Column(tel1, "Distance")), SeqMax(Column(tel2, "Distance")))

\* driver2 - driver1
SpeedDeltaReversed(speed1_interp, speed2_interp) ==
    [i \in 1..Len(speed1_interp) |-> RatSub(speed2_interp[i], speed1_interp[i])]

SpeedDelta(speed1_interp, speed2_interp) ==
    [i \in 1..Len(speed1_interp) |-> RatSub(speed1_interp[i], speed2_interp[i])]

\* speed_delta >= 0, element by element
PositiveMask(speed_delta) == [i \in 1..Len(speed_delta) |-> speed_delta[i][1] >= 0]

\* speed_delta <= 0
NegativeMaskOrZero(speed_delta) == [i \in 1..Len(speed_delta) |-> speed_delta[i][1] <= 0]

\* speed_delta < 0
NegativeMask(speed_delta) == [i \in 1..Len(speed_delta) |-> speed_delta[i][1] < 0]

\* arr[mask]: the elements of arr at the indices where mask is true, in order
BooleanIndex(arr, mask) ==
    LET kept == SelectSeq([i \in 1..Len(arr) |-> i], LAMBDA i : mask[i])
    IN  [k \in 1..Len(kept) |-> arr[kept[k]]]

\* go.Scatter(x=..., y=..., name=...): one trace of a figure
Scatter(name, x, y) == [name |-> name, x |-> x, y |-> y]

create_speed_delta_plot(self, save_html) ==
    IF ~Truthy(self.driver1_data) \/ ~Truthy(self.driver2_data)
    THEN NoData(self, "No driver data available for plotting")
    ELSE LET tel1 == self.frames[self.driver1_data.telemetry]
             tel2 == self.frames[self.driver2_data.telemetry]
             min_distance == MinDistance(tel1, tel2)
             max_distance == MaxDistance(tel1, tel2)
             common_distance == Linspace(min_distance, max_distance, NUM_POINTS)
             speed1_interp == Interp(common_distance, Column(tel1, "Distance"),
                                     Column(tel1, "Speed"))
             speed2_interp == Interp(common_distance, Column(tel2, "Distance"),
                                     Column(tel2, "Speed"))
             speed_delta == SpeedDelta(speed1_interp, speed2_interp)
             positive_mask == PositiveMask(speed_delta)
             negative_mask == NegativeMask(speed_delta)
         IN  ShowAndSave(self,
                 [kind |-> "figure", name |-> "speed_delta",
                  common_distance |-> common_distance,
                  speed1_interp |-> speed1_interp,
                  speed2_interp |-> speed2_interp,
                  speed_delta |-> speed_delta,
                  data |-> <<Scatter(<<self.driver1_data.driver, "faster">>,
                                     BooleanIndex(common_distance, positive_mask),
                                     BooleanIndex(speed_delta, positive_mask)),
                             Scatter(<<self.driver2_data.driver, "faster">>,
                                     BooleanIndex(common_distance, negative_mask),
                                     BooleanIndex(speed_delta, negative_mask))>>],
                 "speed_delta.html", save_html)

create_comprehensive_dashboard(self, save_html) ==
    IF ~Truthy(self.driver1_data) \/ ~Truthy(self.driver2_data)
    THEN NoData(self, "No driver data available for plotting")
    ELSE ShowAndSave(self, [kind |-> "figure", name |-> "dashboard"],
                     "comprehensive_dashboard.html", save_html)

\* the six create_* calls of generate_all_visualizations, in its order
AllVisualizations(self) ==
    <<create_speed_distance_plot(self, TRUE), create_track_position_plot(self, TRUE),
      create_gear_heatmap(self, TRUE), create_throttle_brake_analysis(self, TRUE),
      create_speed_delta_plot(self, TRUE), create_comprehensive_dashboard(self, TRUE)>>

generate_all_visualizations(self) ==
    LET all == AllVisualizations(self)
    IN  [Return(self, None,
                <<"Generating Advanced F1 Visualizations">>
                    \o Flatten([i \in 1..Len(all) |-> all[i].printed])
                    \o <<"All visualizations generated successfully">>,
                <<>>)
            EXCEPT !.wrote = UNION {all[i].wrote : i \in 1..Len(all)},
                   !.showed = Flatten([i \in 1..Len(all) |-> all[i].showed])]

(***************************************************************************)
(* Calls on one analyzer and its visualizer, in any order.  files and      *)
(* shown are the files written and the figures displayed by the current    *)
(* top-level call (here) or script run (run_analysis).  ret.args holds the *)
(* arguments of the call followed by what its provider calls met.          *)
(***************************************************************************)
DRIVER1 == "VER"
DRIVER2 == "LEC"
Drivers == {DRIVER1, DRIVER2}

NewAnalyzer ==
    [session |-> None, driver1_data |-> None, driver2_data |-> None,
     combined_data |-> None, frames |-> <<>>, fetched |-> <<>>]

\* launch_dashboard has not been started
NotLaunched ==
    [pc |-> "start", missing |-> {}, asked |-> "no", answer |-> <<>>, thread |-> "none",
     elapsed |-> 0, spawned |-> 0, tabs |-> 0, server |-> "none", exit |-> "none"]

\* view_f1_visuals.main has not been started
NotViewing ==
    [pc |-> "start", html_files |-> <<>>, prompts |-> 0, asked |-> "no",
     choice |-> <<>>, printed |-> <<>>, opened |-> <<>>, exit |-> "none"]

NoCall == [op |-> "none", args |-> <<>>, value |-> None, printed |-> <<>>,
           calls |-> <<>>, raised |-> FALSE]

Idle == "idle"

DefaultCfg == [SAVE_CSV |-> TRUE, SAVE_PLOTS |-> TRUE, SHOW_PLOTS |-> TRUE]

\* the live references after a call
LiveAfter(res) ==
    LiveRefs(<<res.self.driver1_data, res.self.driver2_data, res.self.combined_data,
               res.value>>)

\* the analyzer after a call
SetAnalyzer(res) ==
    LET live == LiveAfter(res)
    IN  /\ session' = res.self.session
        /\ driver1_data' = Rename(res.self.driver1_data, live)
        /\ driver2_data' = Rename(res.self.driver2_data, live)
        /\ combined_data' = Rename(res.self.combined_data, live)
        /\ frames' = Collect(res.self.frames, live)
        /\ fetched' = Collect(History(res.self.frames, res.self.fetched), live)

Outcome(op, args, res) ==
    [op |-> op, args |-> args, value |-> Rename(res.value, LiveAfter(res)),
     printed |-> res.printed, calls |-> res.calls, raised |-> res.raised]

Call(op, args, res) ==
    /\ SetAnalyzer(res)
    /\ files' = res.wrote
    /\ csv' = res.csv
    /\ shown' = res.showed
    /\ ret' = Outcome(op, args, res)
    /\ UNCHANGED <<visualizer, dirs, pc, cfg, launcher, viewer>>

Init ==
    /\ session = None
    /\ driver1_data = None
    /\ driver2_data = None
    /\ combined_data = None
    /\ frames = <<>>
    /\ fetched = <<>>
    /\ visualizer = None
    /\ dirs \in {{"f1_cache"}, {"f1_cache", OUTPUT_DIR}}
    /\ files = {}
    /\ csv = <<>>
    /\ shown = <<>>
    /\ ret = NoCall
    /\ pc = Idle
    /\ cfg = DefaultCfg
    /\ launcher = NotLaunched
    /\ viewer = NotViewing

LoadSession ==
    \E get_ok, load_ok \in BOOLEAN :
        Call("load_session", <<get_ok, load_ok>>, load_session(Self, get_ok, load_ok))

GetFastestLapTelemetry ==
    \E driver \in Drivers, lap \in LapOutcomes :
        Call("get_fastest_lap_telemetry", <<driver, lap.kind>>,
             get_fastest_lap_telemetry(Self, driver, lap))

CompareDrivers ==
    \E lap1, lap2 \in LapOutcomes :
        Call("compare_drivers", <<DRIVER1, DRIVER2, lap1.kind, lap2.kind>>,
             compare_drivers(Self, DRIVER1, DRIVER2, lap1, lap2))

GetComparisonSummary == Call("get_comparison_summary", <<>>, get_comparison_summary(Self))

SaveData == Call("save_data", <<>>, save_data(Self, "f1_telemetry_comparison.csv"))

PlotSpeedComparison ==
    \E save_plot \in BOOLEAN :
        Call("plot_speed_comparison", <<save_plot>>, plot_speed_comparison(Self, save_plot))

PlotAdvancedVisuals == Call("plot_advanced_visuals", <<>>, plot_advanced_visuals(Self))

\* F1AdvancedVisualizer(analyzer); ret.args holds what os.path.exists said
NewVisualizer ==
    /\ LET made == EnsureDir(dirs, OUTPUT_DIR)
       IN  /\ visualizer' = IF made.raised THEN visualizer
                            ELSE [kind |-> "visualizer", output_dir |-> OUTPUT_DIR]
           /\ dirs' = made.dirs
           /\ ret' = [NoCall EXCEPT !.op = "F1AdvancedVisualizer",
                                    !.args = <<OUTPUT_DIR \in dirs>>,
                                    !.raised = made.raised]
    /\ files' = {}
    /\ csv' = <<>>
    /\ shown' = <<>>
    /\ UNCHANGED <<analyzer_vars, pc, cfg, launcher, viewer>>

CreateSpeedDistancePlot ==
    /\ visualizer.kind = "visualizer"
    /\ \E save_html \in BOOLEAN :
           Call("create_speed_distance_plot", <<save_html>>,
                create_speed_distance_plot(Self, save_html))

CreateTrackPositionPlot ==
    /\ visualizer.kind = "visualizer"
    /\ \E save_html \in BOOLEAN :
           Call("create_track_position_plot", <<save_html>>,
                create_track_position_plot(Self, save_html))

CreateGearHeatmap ==
    /\ visualizer.kind = "visualizer"
    /\ \E save_html \in BOOLEAN :
           Call("create_gear_heatmap", <<save_html>>, create_gear_heatmap(Self, save_html))

CreateThrottleBrakeAnalysis ==
    /\ visualizer.kind = "visualizer"
    /\ \E save_html \in BOOLEAN :
           Call("create_throttle_brake_analysis", <<save_html>>,
                create_throttle_brake_analysis(Self, save_html))

CreateSpeedDeltaPlot ==
    /\ visualizer.kind = "visualizer"
    /\ \E save_html \in BOOLEAN :
           Call("create_speed_delta_plot", <<save_html>>,
                create_speed_delta_plot(Self, save_html))

CreateComprehensiveDashboard ==
    /\ visualizer.kind = "visualizer"
    /\ \E save_html \in BOOLEAN :
           Call("create_comprehensive_dashboard", <<save_html>>,
                create_comprehensive_dashboard(Self, save_html))

GenerateAllVisualizations ==
    /\ visualizer.kind = "visualizer"
    /\ Call("generate_all_visualizations", <<>>, generate_all_visualizations(Self))

Next ==
    \/ LoadSession
    \/ GetFastestLapTelemetry
    \/ CompareDrivers
    \/ GetComparisonSummary
    \/ SaveData
    \/ PlotSpeedComparison
    \/ PlotAdvancedVisuals
    \/ NewVisualizer
    \/ CreateSpeedDistancePlot
    \/ CreateTrackPositionPlot
    \/ CreateGearHeatmap
    \/ CreateThrottleBrakeAnalysis
    \/ CreateSpeedDeltaPlot
    \/ CreateComprehensiveDashboard
    \/ GenerateAllVisualizations

Spec == Init /\ [][Next]_vars

(***************************************************************************)
(* The comparator on its own: an analyzer that has compared two laps,      *)
(* their telemetry drawn from Traces, and a visualizer that plots the      *)
(* speed delta once, with the default save_html.                           *)
(***************************************************************************)
LapOf(tel) == Lap(70, 1, "Team", tel)

InitDelta ==
    \E tel1 \in Traces({"const200", "linear", "brake"}),
       tel2 \in Traces({"const180", "linear", "brake"}) :
        LET res == compare_drivers([NewAnalyzer EXCEPT !.session = Loaded],
                                   DRIVER1, DRIVER2, LapOf(tel1), LapOf(tel2))
            live == LiveAfter(res)
        IN  /\ session = res.self.session
            /\ driver1_data = Rename(res.self.driver1_data, live)
            /\ driver2_data = Rename(res.self.driver2_data, live)
            /\ combined_data = Rename(res.self.combined_data, live)
            /\ frames = Collect(res.self.frames, live)
            /\ fetched = Collect(History(res.self.frames, res.self.fetched), live)
            /\ visualizer = [kind |-> "visualizer", output_dir |-> OUTPUT_DIR]
            /\ dirs = {"f1_cache", OUTPUT_DIR}
            /\ files = {}
            /\ csv = <<>>
            /\ shown = <<>>
            /\ ret = Outcome("compare_drivers", <<DRIVER1, DRIVER2, "lap", "lap">>, res)
            /\ pc = Idle
            /\ cfg = DefaultCfg
            /\ launcher = NotLaunched
            /\ viewer = NotViewing

PlotSpeedDelta ==
    /\ ret.op = "compare_drivers"
    /\ Call("create_speed_delta_plot", <<TRUE>>, create_speed_delta_plot(Self, TRUE))

NextDelta == PlotSpeedDelta

SpecDelta == InitDelta /\ [][NextDelta]_vars

(***************************************************************************)
(* run_analysis (run_f1_analysis.py), one step per statement that calls    *)
(* the analyzer or the visualizer, on the settings of f1_config.py.        *)
(***************************************************************************)
CSV_NAME == "f1_2024_Monaco_Q_VER_vs_LEC.csv"

\* a call made by the script: its files and figures add to those of the run
Step(op, args, res, next) ==
    /\ SetAnalyzer(res)
    /\ files' = files \cup res.wrote
    /\ csv' = IF res.csv = <<>> THEN csv ELSE res.csv
    /\ shown' = shown \o res.showed
    /\ ret' = Outcome(op, args, res)
    /\ pc' = next
    /\ UNCHANGED <<visualizer, dirs, cfg, launcher, viewer>>

\* the script returns from run_analysis; at "raised" an exception has left it
Leave(value) ==
    /\ ret' = [NoCall EXCEPT !.op = "run_analysis", !.value = value]
    /\ pc' = "done"
    /\ UNCHANGED <<analyzer_vars, visualizer, dirs, files, csv, shown, cfg, launcher, viewer>>

InitRun ==
    /\ session = None
    /\ driver1_data = None
    /\ driver2_data = None
    /\ combined_data = None
    /\ frames = <<>>
    /\ fetched = <<>>
    /\ visualizer = None
    /\ dirs \in {{"f1_cache"}, {"f1_cache", OUTPUT_DIR}}
    /\ files = {}
    /\ csv = <<>>
    /\ shown = <<>>
    /\ ret = NoCall
    /\ pc = "load_session"
    /\ cfg \in [SAVE_CSV : BOOLEAN, SAVE_PLOTS : BOOLEAN, SHOW_PLOTS : BOOLEAN]
    /\ launcher = NotLaunched
    /\ viewer = NotViewing

RunLoadSession ==
    /\ pc = "load_session"
    /\ \E get_ok, load_ok \in BOOLEAN :
           LET res == load_session(Self, get_ok, load_ok)
           IN  Step("load_session", <<get_ok, load_ok>>, res,
                    IF res.raised THEN "raised"
                    ELSE IF res.value.val THEN "compare_drivers" ELSE "load_failed")

\* the return value of load_session is not looked at
RunLoadFailedIgnored ==
    /\ pc = "load_failed"
    /\ pc' = "compare_drivers"
    /\ UNCHANGED <<analyzer_vars, visualizer, dirs, files, csv, shown, ret, cfg, launcher, viewer>>

RunLoadFailed ==
    /\ pc = "load_failed"
    /\ Leave(Bool(FALSE))

RunCompareDrivers ==
    /\ pc = "compare_drivers"
    /\ \E lap1, lap2 \in LapOutcomes :
           LET res == compare_drivers(Self, DRIVER1, DRIVER2, lap1, lap2)
           IN  Step("compare_drivers", <<DRIVER1, DRIVER2, lap1.kind, lap2.kind>>, res,
                    IF res.raised THEN "raised"
                    ELSE IF res.value.val THEN "summary" ELSE "compare_failed")

RunCompareFailed ==
    /\ pc = "compare_failed"
    /\ Leave(Bool(FALSE))

\* summary = analyzer.get_comparison_summary(); the prints subscript summary
RunSummary ==
    /\ pc = "summary"
    /\ LET res == get_comparison_summary(Self)
       IN  Step("get_comparison_summary", <<>>, res,
                IF res.raised \/ res.value.kind = "None" THEN "raised" ELSE "save_csv")

RunSaveCsv ==
    /\ pc = "save_csv"
    /\ IF cfg.SAVE_CSV
       THEN LET res == save_data(Self, CSV_NAME)
            IN  Step("save_data", <<>>, res, IF res.raised THEN "raised" ELSE "plots")
       ELSE /\ pc' = "plots"
            /\ UNCHANGED <<analyzer_vars, visualizer, dirs, files, csv, shown, ret, cfg, launcher, viewer>>

RunPlots ==
    /\ pc = "plots"
    /\ IF cfg.SAVE_PLOTS \/ cfg.SHOW_PLOTS
       THEN LET res == plot_speed_comparison(Self, cfg.SAVE_PLOTS)
            IN  Step("plot_speed_comparison", <<cfg.SAVE_PLOTS>>, res,
                     IF res.raised THEN "raised" ELSE "visualizer")
       ELSE /\ pc' = "finish"
            /\ UNCHANGED <<analyzer_vars, visualizer, dirs, files, csv, shown, ret, cfg, launcher, viewer>>

RunNewVisualizer ==
    /\ pc = "visualizer"
    /\ LET made == EnsureDir(dirs, OUTPUT_DIR)
       IN  /\ visualizer' = IF made.raised THEN visualizer
                            ELSE [kind |-> "visualizer", output_dir |-> OUTPUT_DIR]
           /\ dirs' = made.dirs
           /\ ret' = [NoCall EXCEPT !.op = "F1AdvancedVisualizer",
                                    !.args = <<OUTPUT_DIR \in dirs>>,
                                    !.raised = made.raised]
           /\ pc' = IF made.raised THEN "raised" ELSE "generate"
    /\ UNCHANGED <<analyzer_vars, files, csv, shown, cfg, launcher, viewer>>

RunGenerateAll ==
    /\ pc = "generate"
    /\ LET res == generate_all_visualizations(Self)
       IN  Step("generate_all_visualizations", <<>>, res,
                IF res.raised THEN "raised" ELSE "finish")

RunFinish ==
    /\ pc = "finish"
    /\ Leave(Bool(TRUE))

NextRun ==
    \/ RunLoadSession
    \/ RunLoadFailed
    \/ RunCompareDrivers
    \/ RunCompareFailed
    \/ RunSummary
    \/ RunSaveCsv
    \/ RunPlots
    \/ RunNewVisualizer
    \/ RunGenerateAll
    \/ RunFinish

SpecRun == InitRun /\ [][NextRun]_vars

(***************************************************************************)
(* The CSV export on its own: an analyzer that has compared two laps whose *)
(* telemetry has an integer, a float and a bool channel, and exports the   *)
(* combined data once.                                                     *)
(***************************************************************************)
\* the floats a cell of the X channel holds: 0.0, 0.0625, 0.375, 99.5
Floats == {<<0, 1>>, <<1, 16>>, <<3, 8>>, <<199, 2>>}

\* a trace sampled at the distances ds whose X is x, then -x, then x, ...
CsvTrace(ds, x) ==
    [i \in 1..Len(ds) |->
        [Distance |-> ds[i], Speed |-> SpeedOf("linear", ds[i], i),
         X |-> IF i % 2 = 1 THEN x ELSE <<-x[1], x[2]>>,
         Brake |-> (i % 2 = 0)]]

InitCsv ==
    \E tel1 \in {CsvTrace(ds, x) : ds \in DistSeqs, x \in Floats},
       tel2 \in {CsvTrace(ds, <<5, 4>>) : ds \in {<<1>>, <<0, 2>>}} :
        LET res == compare_drivers([NewAnalyzer EXCEPT !.session = Loaded],
                                   DRIVER1, DRIVER2, LapOf(tel1), LapOf(tel2))
            live == LiveAfter(res)
        IN  /\ session = res.self.session
            /\ driver1_data = Rename(res.self.driver1_data, live)
            /\ driver2_data = Rename(res.self.driver2_data, live)
            /\ combined_data = Rename(res.self.combined_data, live)
            /\ frames = Collect(res.self.frames, live)
            /\ fetched = Collect(History(res.self.frames, res.self.fetched), live)
            /\ visualizer = None
            /\ dirs = {"f1_cache"}
            /\ files = {}
            /\ csv = <<>>
            /\ shown = <<>>
            /\ ret = Outcome("compare_drivers", <<DRIVER1, DRIVER2, "lap", "lap">>, res)
            /\ pc = Idle
            /\ cfg = DefaultCfg
            /\ launcher = NotLaunched
            /\ viewer = NotViewing

SaveCsv ==
    /\ ret.op = "compare_drivers"
    /\ SaveData

NextCsv == SaveCsv

SpecCsv == InitCsv /\ [][NextCsv]_vars

(***************************************************************************)
(* launch_dashboard (launch_dashboard.py).  The main thread checks the     *)
(* dependencies, asks whether to open the browser, then imports and runs   *)
(* the dashboard server; the browser thread, a daemon, sleeps the delay    *)
(* and opens one tab, and dies with the process.  One step of the main     *)
(* thread per blocking call, one step of the browser thread per second of  *)
(* its sleep and one for webbrowser.open.                                  *)
(***************************************************************************)
required_packages == {"dash", "plotly", "fastf1", "pandas", "numpy"}

BROWSER_DELAY == 2

\* what the user can type at the prompt, as sequences of characters
RawAnswers ==
    {<<>>, <<" ">>, <<"y">>, <<"Y">>, <<"y", "e", "s">>, <<" ", "Y", "E", "S", " ">>,
     <<"n">>, <<"n", "o">>, <<"y", "e", "a", "h">>, <<"o", "k">>}

\* str.lower(), on the letters of RawAnswers
LowerChar(c) ==
    CASE c = "Y" -> "y"
      [] c = "E" -> "e"
      [] c = "S" -> "s"
      [] OTHER -> c

Lower(str) == [i \in 1..Len(str) |-> LowerChar(str[i])]

\* str.strip(): without the leading and the trailing whitespace
RECURSIVE Strip(_)
Strip(str) ==
    IF Len(str) = 0 THEN str
    ELSE IF str[1] = " " THEN Strip(Tail(str))
    ELSE IF str[Len(str)] = " " THEN Strip(SubSeq(str, 1, Len(str) - 1))
    ELSE str

\* the thread is spawned unless the answer is n or no
AutoOpenUnlessNo(raw) == Strip(Lower(raw)) \notin {<<"n">>, <<"n", "o">>}

\* auto_open in ['y', 'yes', '']
AutoOpen(raw) == Strip(Lower(raw)) \in {<<"y">>, <<"y", "e", "s">>, <<>>}

analysis_vars ==
    <<analyzer_vars, visualizer, dirs, files, csv, shown, ret, pc, cfg, viewer>>

\* the process ends: a daemon thread that has not finished ends with it
Exit(l, how) ==
    [l EXCEPT !.pc = "exited", !.exit = how,
              !.thread = IF @ = "sleeping" THEN "killed" ELSE @]

InitLaunch ==
    /\ session = None
    /\ driver1_data = None
    /\ driver2_data = None
    /\ combined_data = None
    /\ frames = <<>>
    /\ fetched = <<>>
    /\ visualizer = None
    /\ dirs = {"f1_cache"}
    /\ files = {}
    /\ csv = <<>>
    /\ shown = <<>>
    /\ ret = NoCall
    /\ pc = Idle
    /\ cfg = DefaultCfg
    /\ launcher = NotLaunched
    /\ viewer = NotViewing

\* if not check_dependencies(): return
CheckDependencies ==
    /\ launcher.pc = "start"
    /\ \E missing_packages \in SUBSET required_packages :
           launcher' = IF missing_packages # {}
                       THEN Exit([launcher EXCEPT !.missing = missing_packages], "returned")
                       ELSE [launcher EXCEPT !.pc = "prompt"]
    /\ UNCHANGED analysis_vars

\* input(...) returns what the user typed
Answer ==
    /\ launcher.pc = "prompt"
    /\ \E raw \in RawAnswers :
           launcher' = IF AutoOpen(raw)
                       THEN [launcher EXCEPT !.pc = "import", !.asked = "answered",
                                             !.answer = raw, !.thread = "sleeping",
                                             !.spawned = @ + 1]
                       ELSE [launcher EXCEPT !.pc = "import", !.asked = "answered",
                                             !.answer = raw]
    /\ UNCHANGED analysis_vars

\* Ctrl+C at the prompt: except KeyboardInterrupt prints and goes on
InterruptPrompt ==
    /\ launcher.pc = "prompt"
    /\ launcher' = [launcher EXCEPT !.pc = "import", !.asked = "interrupted"]
    /\ UNCHANGED analysis_vars

\* input() raises EOFError, which nothing in launch_dashboard catches
EndOfInput ==
    /\ launcher.pc = "prompt"
    /\ launcher' = Exit([launcher EXCEPT !.asked = "eof"], "raised")
    /\ UNCHANGED analysis_vars

\* from f1_dashboard import app; app.run(...), in the main thread
ImportAndRun ==
    /\ launcher.pc = "import"
    /\ \E outcome \in {"serving", "import_error", "run_error"} :
           launcher' = IF outcome = "serving"
                       THEN [launcher EXCEPT !.pc = "serving", !.server = "main"]
                       ELSE Exit(launcher, outcome)
    /\ UNCHANGED analysis_vars

\* app.run returns or raises, or Ctrl+C stops it
ServerStops ==
    /\ launcher.pc = "serving"
    /\ \E how \in {"returned", "run_error", "interrupted"} :
           launcher' = Exit(launcher, how)
    /\ UNCHANGED analysis_vars

\* the browser thread: one second of time.sleep(2)
Sleep ==
    /\ launcher.pc # "exited"
    /\ launcher.thread = "sleeping"
    /\ launcher.elapsed < BROWSER_DELAY
    /\ launcher' = [launcher EXCEPT !.elapsed = @ + 1]
    /\ UNCHANGED analysis_vars

\* the browser thread: webbrowser.open(url), and the thread ends
OpenBrowser ==
    /\ launcher.pc # "exited"
    /\ launcher.thread = "sleeping"
    /\ launcher.elapsed = BROWSER_DELAY
    /\ launcher' = [launcher EXCEPT !.thread = "done", !.tabs = @ + 1]
    /\ UNCHANGED analysis_vars

NextLaunch ==
    \/ CheckDependencies
    \/ Answer
    \/ InterruptPrompt
    \/ EndOfInput
    \/ ImportAndRun
    \/ ServerStops
    \/ Sleep
    \/ OpenBrowser

SpecLaunch == InitLaunch /\ [][NextLaunch]_vars

(***************************************************************************)
(* The cache setup: the first statements of f1_telemetry_analysis.py, run  *)
(* when the module is imported, and test_fastf1_basic of test_dashboard.py.*)
(* The cache folder holds what earlier runs stored in it.                  *)
(***************************************************************************)
cache_dir == "f1_cache"

\* the files earlier runs can have left in the cache
CacheFiles ==
    {File(cache_dir, n) : n \in {"fastf1_http_cache.sqlite", "2024", "2023", "README"}}

\* fastf1.Cache.enable_cache(d): NotADirectoryError unless d is a directory
enable_cache(ds, d) == [raised |-> d \notin ds]

\* the folder is made anew: what it held is gone
CacheSetupFromScratch(ds, fs) ==
    [dirs |-> ds \cup {cache_dir}, files |-> {f \in fs : f[1] # cache_dir},
     raised |-> FALSE]

\* if not os.path.exists(cache_dir): os.makedirs(cache_dir); enable_cache
CacheSetup(ds, fs) ==
    LET made == EnsureDir(ds, cache_dir)
    IN  [dirs |-> made.dirs, files |-> fs,
         raised |-> made.raised \/ enable_cache(made.dirs, cache_dir).raised]

InitSetup ==
    /\ session = None
    /\ driver1_data = None
    /\ driver2_data = None
    /\ combined_data = None
    /\ frames = <<>>
    /\ fetched = <<>>
    /\ visualizer = None
    /\ dirs \in SUBSET {cache_dir, OUTPUT_DIR}
    /\ files \in SUBSET CacheFiles
    /\ cache_dir \notin dirs => files = {}
    /\ csv = <<>>
    /\ shown = <<>>
    /\ ret = NoCall
    /\ pc = Idle
    /\ cfg = DefaultCfg
    /\ launcher = NotLaunched
    /\ viewer = NotViewing

\* import f1_telemetry_analysis: an exception of the setup leaves the import
ImportAnalyzer ==
    /\ LET done == CacheSetup(dirs, files)
       IN  /\ dirs' = done.dirs
           /\ files' = done.files
           /\ ret' = [NoCall EXCEPT !.op = "import f1_telemetry_analysis",
                                    !.args = <<cache_dir \in dirs>>,
                                    !.raised = done.raised]
    /\ UNCHANGED <<analyzer_vars, visualizer, csv, shown, pc, cfg, launcher, viewer>>

\* test_fastf1_basic(): True, or False after an exception of the setup
TestFastf1Basic ==
    /\ LET done == CacheSetup(dirs, files)
       IN  /\ dirs' = done.dirs
           /\ files' = done.files
           /\ ret' = [NoCall EXCEPT !.op = "test_fastf1_basic",
                                    !.args = <<cache_dir \in dirs>>,
                                    !.value = Bool(~done.raised),
                                    !.printed = IF done.raised
                                                THEN <<"FastF1 setup error">>
                                                ELSE <<"FastF1 cache setup successful">>]
    /\ UNCHANGED <<analyzer_vars, visualizer, csv, shown, pc, cfg, launcher, viewer>>

NextSetup ==
    \/ ImportAnalyzer
    \/ TestFastf1Basic

SpecSetup == InitSetup /\ [][NextSetup]_vars

(***************************************************************************)
(* The visualization viewer (view_f1_visuals.py).  main lists the HTML     *)
(* files of the output folder, in the order os.listdir gives them, prints  *)
(* the menu and asks for a number until a choice is valid.  One step for   *)
(* the listing and one for every input() of the loop.  The folder is what  *)
(* earlier runs left in it, and nothing else touches it while the viewer   *)
(* runs.                                                                   *)
(***************************************************************************)
MaxPrompts == 3     \* the viewer is followed for at most MaxPrompts inputs

vis_dir == "f1_visualizations"

\* the names a file of the folder can have
VisNames ==
    {"speed_delta.html", "gear_heatmap.html", "comprehensive_dashboard.html",
     "speed_delta.html.bak", "f1_speed_comparison.png"}

\* str.endswith('.html'), on the names of VisNames
EndsWithHtml(f) ==
    f \in {"speed_delta.html", "gear_heatmap.html", "comprehensive_dashboard.html"}

\* os.listdir(d): the names of the files of d
listdir(fs, d) == {f[2] : f \in {g \in fs : g[1] = d}}

\* the orders in which the names of S can be listed
Listings(S) ==
    {s \in [1..Cardinality(S) -> S] : \A i, j \in 1..Cardinality(S) : i # j => s[i] # s[j]}

\* list_visualizations(); listing is what os.listdir returned
list_visualizations(ds, listing) ==
    IF vis_dir \notin ds
    THEN [value |-> <<>>, printed |-> <<"No visualizations found">>]
    ELSE LET html_files == SelectSeq(listing, EndsWithHtml)
         IN  IF html_files = <<>>
             THEN [value |-> <<>>, printed |-> <<"No HTML visualizations found">>]
             ELSE [value |-> html_files, printed |-> <<>>]

\* open_visualization(filename): the tabs opened, the message
open_visualization(fs, filename) ==
    IF File(vis_dir, filename) \in fs
    THEN [opened |-> <<filename>>, printed |-> <<"Opening">>]
    ELSE [opened |-> <<>>, printed |-> <<"File not found">>]

\* what the user can type at the prompt, as sequences of characters
RawChoices ==
    {<<>>, <<"a">>, <<"1", ".", "0">>, <<"0">>, <<"-", "1">>, <<"1">>, <<"2">>,
     <<"+", "3">>, <<" ", "4", " ">>, <<"0", "5">>, <<"6">>, <<"1", "0">>}

RECURSIVE DecimalValue(_)
DecimalValue(str) ==
    IF Len(str) = 0 THEN 0
    ELSE 10 * DecimalValue(SubSeq(str, 1, Len(str) - 1))
            + (CHOOSE d \in 0..9 : Digits[d + 1] = str[Len(str)])

\* int(choice): whitespace around it and a sign before the digits are allowed
ParseInt(choice) ==
    LET s == Strip(choice)
        signed == Len(s) > 0 /\ s[1] \in {"+", "-"}
        digits == IF signed THEN Tail(s) ELSE s
        decimal == /\ Len(digits) > 0
                   /\ \A i \in 1..Len(digits) : \E d \in 1..10 : Digits[d] = digits[i]
    IN  IF decimal
        THEN [raised |-> FALSE,
              value |-> (IF signed /\ s[1] = "-" THEN -1 ELSE 1) * DecimalValue(digits)]
        ELSE [raised |-> TRUE, value |-> 0]

\* a number that is no entry of the menu ends the loop like Exit
ChooseOrLeave(html_files, fs, choice) ==
    LET choice_num == ParseInt(choice)
        n == Len(html_files)
        all == [i \in 1..n |-> open_visualization(fs, html_files[i])]
    IN  IF choice_num.raised
        THEN [done |-> FALSE, opened |-> <<>>, printed |-> <<"Please enter a valid number">>]
        ELSE IF choice_num.value = n + 1
        THEN [done |-> TRUE, opened |-> Flatten([i \in 1..n |-> all[i].opened]),
              printed |-> <<"Opening all visualizations">>
                              \o Flatten([i \in 1..n |-> all[i].printed])]
        ELSE IF 1 <= choice_num.value /\ choice_num.value <= n
        THEN [done |-> TRUE, opened |-> all[choice_num.value].opened,
              printed |-> all[choice_num.value].printed]
        ELSE [done |-> TRUE, opened |-> <<>>, printed |-> <<"Goodbye">>]

\* one turn of the loop on an input: whether the loop ends, the tabs opened
Choose(html_files, fs, choice) ==
    LET choice_num == ParseInt(choice)
        n == Len(html_files)
        all == [i \in 1..n |-> open_visualization(fs, html_files[i])]
    IN  IF choice_num.raised
        THEN [done |-> FALSE, opened |-> <<>>, printed |-> <<"Please enter a valid number">>]
        ELSE IF choice_num.value = n + 2
        THEN [done |-> TRUE, opened |-> <<>>, printed |-> <<"Goodbye">>]
        ELSE IF choice_num.value = n + 1
        THEN [done |-> TRUE, opened |-> Flatten([i \in 1..n |-> all[i].opened]),
              printed |-> <<"Opening all visualizations">>
                              \o Flatten([i \in 1..n |-> all[i].printed])]
        ELSE IF 1 <= choice_num.value /\ choice_num.value <= n
        THEN [done |-> TRUE, opened |-> all[choice_num.value].opened,
              printed |-> all[choice_num.value].printed]
        ELSE [done |-> FALSE, opened |-> <<>>, printed |-> <<"Invalid choice">>]

InitView ==
    /\ session = None
    /\ driver1_data = None
    /\ driver2_data = None
    /\ combined_data = None
    /\ frames = <<>>
    /\ fetched = <<>>
    /\ visualizer = None
    /\ dirs \in {{"f1_cache"}, {"f1_cache", vis_dir}}
    /\ files \in SUBSET {File(vis_dir, f) : f \in VisNames}
    /\ vis_dir \notin dirs => files = {}
    /\ csv = <<>>
    /\ shown = <<>>
    /\ ret = NoCall
    /\ pc = Idle
    /\ cfg = DefaultCfg
    /\ launcher = NotLaunched
    /\ viewer = NotViewing

view_vars ==
    <<analyzer_vars, visualizer, dirs, files, csv, shown, ret, pc, cfg, launcher>>

\* html_files = list_visualizations(); if not html_files: return; the menu
ListVisualizations ==
    /\ viewer.pc = "start"
    /\ \E listing \in Listings(listdir(files, vis_dir)) :
           LET html_files == list_visualizations(dirs, listing)
           IN  viewer' = IF html_files.value = <<>>
                         THEN [viewer EXCEPT !.pc = "exited", !.exit = "returned",
                                             !.printed = html_files.printed]
                         ELSE [viewer EXCEPT !.pc = "prompt",
                                             !.html_files = html_files.value,
                                             !.printed = <<"Available visualizations">>]
    /\ UNCHANGED view_vars

\* input(...) returns what the user typed: one turn of the loop
Select ==
    /\ viewer.pc = "prompt"
    /\ viewer.prompts < MaxPrompts
    /\ \E choice \in RawChoices :
           LET turn == Choose(viewer.html_files, files, choice)
           IN  viewer' = [viewer EXCEPT !.pc = IF turn.done THEN "exited" ELSE "prompt",
                                        !.exit = IF turn.done THEN "returned" ELSE @,
                                        !.prompts = @ + 1,
                                        !.asked = "answered",
                                        !.choice = choice,
                                        !.printed = turn.printed,
                                        !.opened = @ \o turn.opened]
    /\ UNCHANGED view_vars

\* Ctrl+C at the prompt: except KeyboardInterrupt prints and leaves the loop
InterruptSelect ==
    /\ viewer.pc = "prompt"
    /\ viewer.prompts < MaxPrompts
    /\ viewer' = [viewer EXCEPT !.pc = "exited", !.exit = "returned", !.prompts = @ + 1,
                                !.asked = "interrupted", !.printed = <<"Goodbye">>]
    /\ UNCHANGED view_vars

\* input() raises EOFError, which nothing in main catches
EndOfChoices ==
    /\ viewer.pc = "prompt"
    /\ viewer.prompts < MaxPrompts
    /\ viewer' = [viewer EXCEPT !.pc = "exited", !.exit = "raised", !.prompts = @ + 1,
                                !.asked = "eof", !.printed = <<>>]
    /\ UNCHANGED view_vars

NextView ==
    \/ ListVisualizations
    \/ Select
    \/ InterruptSelect
    \/ EndOfChoices

SpecView == InitView /\ [][NextView]_vars

(***************************************************************************)
(* The comparator: what the claims say of the grid and of the delta,       *)
(* stated on the telemetry itself.                                         *)
(***************************************************************************)
Tel1 == frames[driver1_data.telemetry]
Tel2 == frames[driver2_data.telemetry]

SampleDistances(tel) == {tel[i].Distance : i \in 1..Len(tel)}
Lowest(S) == CHOOSE x \in S : \A y \in S : x <= y
Highest(S) == CHOOSE x \in S : \A y \in S : x >= y

\* the intersection of the two distance ranges is [OverlapLow, OverlapHigh]
OverlapLow ==
    Highest({Lowest(SampleDistances(Tel1)), Lowest(SampleDistances(Tel2))})
OverlapHigh ==
    Lowest({Highest(SampleDistances(Tel1)), Highest(SampleDistances(Tel2))})
Overlapping == OverlapLow <= OverlapHigh

\* the speed-delta plot has been called on two lap records
DeltaCalled ==
    /\ ret.op = "create_speed_delta_plot"
    /\ driver1_data.kind = "record"
    /\ driver2_data.kind = "record"

DeltaPlotted == DeltaCalled /\ ret.value.kind = "figure"

InRange(x, lo, hi) == RatLeq(Rat(lo), x) /\ RatLeq(x, Rat(hi))

\* the point (x, y) lies on the polyline through the samples of tel
OnPolyline(tel, x, y) ==
    \E j \in 1..Len(tel) :
        \/ Rat(tel[j].Distance) = x /\ y = Rat(tel[j].Speed)
        \/ /\ j < Len(tel)
           /\ RatLess(Rat(tel[j].Distance), x)
           /\ RatLess(x, Rat(tel[j + 1].Distance))
           /\ (y[1] - tel[j].Speed * y[2]) * x[2]
                  * (tel[j + 1].Distance - tel[j].Distance)
              = (x[1] - tel[j].Distance * x[2]) * y[2]
                  * (tel[j + 1].Speed - tel[j].Speed)

\* C1: for overlapping distance ranges the grid runs from the larger of the
\* two minimum distances to the smaller of the two maximum distances, inside
\* that intersection, and the delta at every grid point is driver1's linearly
\* interpolated speed minus driver2's there.
C1_GridAndDelta ==
    (DeltaPlotted /\ Overlapping) =>
        LET grid == ret.value.common_distance
            n == Len(grid)
        IN  /\ grid[1] = Rat(OverlapLow)
            /\ grid[n] = Rat(OverlapHigh)
            /\ \A i \in 1..n :
                   /\ InRange(grid[i], OverlapLow, OverlapHigh)
                   /\ i < n => RatLeq(grid[i], grid[i + 1])
                   /\ OnPolyline(Tel1, grid[i], ret.value.speed1_interp[i])
                   /\ OnPolyline(Tel2, grid[i], ret.value.speed2_interp[i])
                   /\ ret.value.speed_delta[i]
                          = RatSub(ret.value.speed1_interp[i], ret.value.speed2_interp[i])

\* a plot of two ranges that overlap in more than a point, neither inside the
\* other, whose grid has points strictly between samples
C1_Witness ==
    /\ DeltaPlotted
    /\ OverlapLow < OverlapHigh
    /\ Lowest(SampleDistances(Tel1)) < OverlapLow
    /\ Highest(SampleDistances(Tel2)) > OverlapHigh
    /\ \E i \in 1..Len(ret.value.speed_delta) :
           /\ ret.value.common_distance[i][2] > 1
           /\ ret.value.speed_delta[i][2] > 1

\* C2: when the two distance ranges do not overlap, the speed-delta
\* comparison fails with an explicit error and returns no figure.
C2_NonOverlapFails ==
    (DeltaCalled /\ ~Overlapping) => (ret.raised /\ ret.value.kind = "None")

IsConstant(tel) == \A i \in 1..Len(tel) : tel[i].Speed = tel[1].Speed

\* C3: for overlapping ranges, when driver1's speed is a constant c1 at every
\* sample and driver2's a constant c2, the delta at every grid point is
\* c1 - c2, whatever the sample positions.
C3_ConstantDelta ==
    (DeltaPlotted /\ Overlapping /\ IsConstant(Tel1) /\ IsConstant(Tel2)) =>
        \A i \in 1..Len(ret.value.speed_delta) :
            ret.value.speed_delta[i] = Rat(Tel1[1].Speed - Tel2[1].Speed)

\* constant speeds 200 and 180 sampled at different positions: delta 20
C3_Witness ==
    /\ DeltaPlotted
    /\ Overlapping
    /\ IsConstant(Tel1) /\ Tel1[1].Speed = 200 /\ Len(Tel1) > 1
    /\ IsConstant(Tel2) /\ Tel2[1].Speed = 180 /\ Len(Tel2) > 1
    /\ SampleDistances(Tel1) # SampleDistances(Tel2)
    /\ ret.value.speed_delta[2] = Rat(20)

\* C4: the common distance grid has exactly 500 points for every pair of
\* traces, also when the overlap is a single point.
C4_GridCount ==
    DeltaCalled =>
        /\ ret.value.kind = "figure"
        /\ Len(ret.value.common_distance) = 500
        /\ Len(ret.value.speed_delta) = 500

\* a plot of two ranges that share exactly one point
C4_Witness ==
    /\ DeltaPlotted
    /\ OverlapLow = OverlapHigh
    /\ Len(Tel1) > 1 /\ Len(Tel2) > 1
    /\ Lowest(SampleDistances(Tel1)) < OverlapLow
    /\ Highest(SampleDistances(Tel2)) > OverlapHigh
    /\ Len(ret.value.common_distance) = 500

\* the speed of tel increases linearly with distance
LinearlyIncreasing(tel) ==
    \A i, j, k, l \in 1..Len(tel) :
        /\ (tel[j].Speed - tel[i].Speed) * (tel[l].Distance - tel[k].Distance)
               = (tel[l].Speed - tel[k].Speed) * (tel[j].Distance - tel[i].Distance)
        /\ tel[i].Distance < tel[j].Distance => tel[i].Speed < tel[j].Speed
        /\ tel[i].Distance = tel[j].Distance => tel[i].Speed = tel[j].Speed

Bracketed(tel, grid, interp) ==
    \A i \in 1..Len(grid) : \A j \in 1..(Len(tel) - 1) :
        InRange(grid[i], tel[j].Distance, tel[j + 1].Distance) =>
            InRange(interp[i], tel[j].Speed, tel[j + 1].Speed)

\* C5: for a trace whose speed increases linearly with distance, every value
\* interpolated onto the grid lies between the speeds of the two consecutive
\* samples whose distances bracket the grid point.
C5_Bracketed ==
    DeltaPlotted =>
        /\ LinearlyIncreasing(Tel1) =>
               Bracketed(Tel1, ret.value.common_distance, ret.value.speed1_interp)
        /\ LinearlyIncreasing(Tel2) =>
               Bracketed(Tel2, ret.value.common_distance, ret.value.speed2_interp)

\* a linearly increasing trace of distinct sample distances with a grid point
\* strictly between two of its samples, interpolated strictly between them
C5_Witness ==
    /\ DeltaPlotted
    /\ LinearlyIncreasing(Tel1)
    /\ \E i \in 1..Len(ret.value.common_distance) : \E j \in 1..(Len(Tel1) - 1) :
           /\ RatLess(Rat(Tel1[j].Distance), ret.value.common_distance[i])
           /\ RatLess(ret.value.common_distance[i], Rat(Tel1[j + 1].Distance))
           /\ RatLess(Rat(Tel1[j].Speed), ret.value.speed1_interp[i])
           /\ RatLess(ret.value.speed1_interp[i], Rat(Tel1[j + 1].Speed))

\* C6: every grid point lies inside both drivers' [min distance, max
\* distance] range, so nothing is extrapolated.
C6_NoExtrapolation ==
    DeltaPlotted =>
        \A i \in 1..Len(ret.value.common_distance) :
            /\ InRange(ret.value.common_distance[i], Lowest(SampleDistances(Tel1)),
                       Highest(SampleDistances(Tel1)))
            /\ InRange(ret.value.common_distance[i], Lowest(SampleDistances(Tel2)),
                       Highest(SampleDistances(Tel2)))

(***************************************************************************)
(* Errors at the provider, and the lap records and combined data.          *)
(***************************************************************************)
Printed(msg) == \E i \in 1..Len(ret.printed) : ret.printed[i] = msg

Count(s, x) == Cardinality({i \in 1..Len(s) : s[i] = x})

\* the lap retrieval of driver1 or of driver2 failed in the last compare_drivers
RetrievalFailed ==
    /\ ret.op = "compare_drivers"
    /\ ret.args[3] # "lap" \/ ret.args[4] # "lap"

\* C7: when the lap retrieval of either driver fails, compare_drivers prints
\* a diagnostic, returns False and does not prepare combined data, and
\* run_analysis returns False having written no CSV, PNG or HTML file.
C7_RetrievalFailure ==
    /\ RetrievalFailed =>
           /\ ret.value = Bool(FALSE)
           /\ ~ret.raised
           /\ Printed("Failed to get telemetry data")
           /\ ~Printed("Combined telemetry data prepared")
           /\ combined_data = None
           /\ pc = "compare_failed"
    /\ (pc \in {"compare_failed", "done"} /\ session = Loaded
            /\ (driver1_data = None \/ driver2_data = None)) =>
           /\ files = {}
           /\ shown = <<>>
           /\ pc = "done" => ret = [NoCall EXCEPT !.op = "run_analysis",
                                                  !.value = Bool(FALSE)]

\* run_analysis has returned False after the retrieval of driver2 alone failed
C7_Witness ==
    /\ pc = "done"
    /\ session = Loaded
    /\ driver1_data.kind = "record"
    /\ driver2_data = None
    /\ ret.op = "run_analysis"
    /\ ret.value = Bool(FALSE)
    /\ cfg = DefaultCfg

\* C8: no failure of a provider call leaves a method as an exception:
\* load_session returns False on a failure of the lookup or of the load and
\* True otherwise, get_fastest_lap_telemetry returns None on any failure
\* (also without a loaded session) and a lap record otherwise, and no provider
\* call is made twice.
C8_FailuresCaught ==
    /\ ~ret.raised
    /\ ret.op = "load_session" =>
           /\ ret.value = Bool(ret.args[1] /\ ret.args[2])
           /\ Count(ret.calls, "get_session") = 1
           /\ Count(ret.calls, "load") = IF ret.args[1] THEN 1 ELSE 0
    /\ ret.op = "get_fastest_lap_telemetry" =>
           /\ (session # Loaded \/ ret.args[2] # "lap") => ret.value = None
           /\ (session = Loaded /\ ret.args[2] = "lap") =>
                  /\ ret.value.kind = "record"
                  /\ ret.value.driver = ret.args[1]
           /\ \A c \in {"pick_driver", "pick_fastest", "get_telemetry"} :
                  Count(ret.calls, c) <= 1

\* get_fastest_lap_telemetry called with no session loaded has returned None
C8_Witness ==
    /\ ret.op = "get_fastest_lap_telemetry"
    /\ session = None
    /\ ret.args[2] = "lap"
    /\ ret.value = None
    /\ Printed("Error getting telemetry")

\* row i of the combined data is row j of tel with the driver code added
RowOf(crow, trow, code) ==
    /\ DOMAIN crow = DOMAIN trow \cup {"Driver"}
    /\ \A c \in DOMAIN trow : crow[c] = trow[c]
    /\ crow.Driver = code

\* C9: after a successful compare_drivers, combined_data has one row per
\* telemetry sample per driver: driver1's samples in their order, then
\* driver2's in theirs, each row with the driver code of its trace.
C9_CombinedRows ==
    (ret.op = "compare_drivers" /\ ret.value = Bool(TRUE)) =>
        /\ combined_data.kind = "frame"
        /\ driver1_data.kind = "record" /\ driver1_data.driver = ret.args[1]
        /\ driver2_data.kind = "record" /\ driver2_data.driver = ret.args[2]
        /\ LET combined == frames[combined_data.ref]
           IN  /\ Len(combined) = Len(Tel1) + Len(Tel2)
               /\ \A i \in 1..Len(Tel1) : RowOf(combined[i], Tel1[i], ret.args[1])
               /\ \A i \in 1..Len(Tel2) :
                      RowOf(combined[Len(Tel1) + i], Tel2[i], ret.args[2])

\* a successful comparison of two laps with different numbers of samples
C9_Witness ==
    /\ ret.op = "compare_drivers"
    /\ ret.value = Bool(TRUE)
    /\ Len(Tel1) < Len(Tel2)
    /\ Len(frames[combined_data.ref]) = Len(Tel1) + Len(Tel2)

\* a lap record is as get_fastest_lap_telemetry returned it
AsFetched(v) ==
    v.kind = "record" =>
        /\ fetched[v.telemetry] # NoFrame
        /\ frames[v.telemetry] = fetched[v.telemetry].rows
        /\ v = [fetched[v.telemetry].record EXCEPT !.telemetry = v.telemetry]
        /\ \A i \in 1..Len(frames[v.telemetry]) :
               "Driver" \notin DOMAIN frames[v.telemetry][i]

\* C10: a lap record, once fetched, is never changed: whatever has been
\* called since, its driver code, lap time, lap number, team and telemetry
\* samples are those it was returned with, and its telemetry has no Driver
\* column.
C10_RecordsImmutable ==
    /\ AsFetched(driver1_data)
    /\ AsFetched(driver2_data)
    /\ AsFetched(ret.value)

\* the dashboard has been drawn from two records whose telemetry was combined
C10_Witness ==
    /\ ret.op = "create_comprehensive_dashboard"
    /\ ret.value.kind = "figure"
    /\ driver1_data.kind = "record"
    /\ driver2_data.kind = "record"
    /\ combined_data.kind = "frame"
    /\ "Driver" \in DOMAIN frames[combined_data.ref][1]
    /\ "Driver" \notin DOMAIN Tel1[1]

(***************************************************************************)
(* The lap records: their order in distance and the summary made of them.  *)
(***************************************************************************)
StrictlyIncreasing(tel) ==
    \A i \in 1..(Len(tel) - 1) : tel[i].Distance < tel[i + 1].Distance

InOrder(v) == v.kind = "record" => StrictlyIncreasing(frames[v.telemetry])

\* C11: the telemetry samples of every lap record returned by
\* get_fastest_lap_telemetry are strictly increasing in distance, also when
\* the Distance column is computed by the fallback as the running sum of the
\* speeds.
C11_StrictlyIncreasing ==
    /\ InOrder(driver1_data)
    /\ InOrder(driver2_data)
    /\ InOrder(ret.value)

Speeds(tel) == {tel[i].Speed : i \in 1..Len(tel)}

RECURSIVE Total(_, _)
Total(tel, n) == IF n = 0 THEN 0 ELSE Total(tel, n - 1) + tel[n].Speed

\* entry is the summary entry of the lap record d
EntryOf(entry, d) ==
    LET tel == frames[d.telemetry]
    IN  /\ entry.name = d.driver
        /\ entry.team = d.team
        /\ entry.lap_time = d.lap_time
        /\ entry.lap_number = d.lap_number
        /\ entry.max_speed \in Speeds(tel)
        /\ \A s \in Speeds(tel) : s <= entry.max_speed
        /\ entry.avg_speed[1] * Len(tel) = Total(tel, Len(tel)) * entry.avg_speed[2]

SummaryOfRecords ==
    /\ ret.op = "get_comparison_summary"
    /\ driver1_data.kind = "record"
    /\ driver2_data.kind = "record"

\* C12: for two fetched lap records the summary's time difference is driver1's
\* lap time minus driver2's, faster_driver is the driver with the smaller lap
\* time when the lap times differ, and each driver's max_speed and avg_speed
\* are the maximum and the mean of that driver's own speed samples.
C12_Summary ==
    SummaryOfRecords =>
        /\ ret.value.kind = "summary"
        /\ ret.value.time_difference_seconds = driver1_data.lap_time - driver2_data.lap_time
        /\ driver1_data.lap_time < driver2_data.lap_time =>
               ret.value.faster_driver = driver1_data.driver
        /\ driver2_data.lap_time < driver1_data.lap_time =>
               ret.value.faster_driver = driver2_data.driver
        /\ EntryOf(ret.value.driver1, driver1_data)
        /\ EntryOf(ret.value.driver2, driver2_data)

\* a summary of a slower driver1 whose speed samples differ from driver2's
C12_Witness ==
    /\ SummaryOfRecords
    /\ ret.value.time_difference_seconds = 1
    /\ ret.value.faster_driver = DRIVER2
    /\ ret.value.driver1.max_speed = 2
    /\ ret.value.driver1.avg_speed = Rat(1)
    /\ ret.value.driver2.max_speed = 200

(***************************************************************************)
(* Reading the CSV file back, as pandas.read_csv does: the first line      *)
(* names the columns, and a column is int64 when every field of it is an   *)
(* integer, float64 when every field is a number, bool when every field is *)
(* True or False, and text otherwise.                                      *)
(***************************************************************************)
IsDigit(c) == \E d \in 1..10 : Digits[d] = c
DigitValue(c) == (CHOOSE d \in 1..10 : Digits[d] = c) - 1

IsNat(f) == Len(f) > 0 /\ \A i \in 1..Len(f) : IsDigit(f[i])
Negative(f) == Len(f) > 0 /\ f[1] = "-"
Unsigned(f) == IF Negative(f) THEN Tail(f) ELSE f
IsIntStr(f) == IsNat(Unsigned(f))

PointOf(f) == CHOOSE p \in 1..Len(f) : f[p] = "."
IsFloatStr(f) ==
    LET u == Unsigned(f)
    IN  /\ Cardinality({p \in 1..Len(u) : u[p] = "."}) = 1
        /\ IsNat(SubSeq(u, 1, PointOf(u) - 1))
        /\ IsNat(SubSeq(u, PointOf(u) + 1, Len(u)))

RECURSIVE NatVal(_)
NatVal(f) ==
    IF Len(f) = 0 THEN 0
    ELSE NatVal(SubSeq(f, 1, Len(f) - 1)) * 10 + DigitValue(f[Len(f)])

RECURSIVE Pow10(_)
Pow10(k) == IF k = 0 THEN 1 ELSE 10 * Pow10(k - 1)

IntVal(f) == (IF Negative(f) THEN -1 ELSE 1) * NatVal(Unsigned(f))

FloatVal(f) ==
    IF IsIntStr(f) THEN Rat(IntVal(f))
    ELSE LET u == Unsigned(f)
             k == Len(u) - PointOf(u)
             whole == NatVal(SubSeq(u, 1, PointOf(u) - 1))
             frac == NatVal(SubSeq(u, PointOf(u) + 1, Len(u)))
         IN  Norm((IF Negative(f) THEN -1 ELSE 1) * (whole * Pow10(k) + frac), Pow10(k))

Inferred(fields) ==
    IF \A f \in fields : IsIntStr(f) THEN "int64"
    ELSE IF \A f \in fields : IsIntStr(f) \/ IsFloatStr(f) THEN "float64"
    ELSE IF \A f \in fields : f \in {<<"True">>, <<"False">>} THEN "bool"
    ELSE "object"

ParseCell(dtype, f) ==
    CASE dtype = "int64" -> IntVal(f)
      [] dtype = "float64" -> FloatVal(f)
      [] dtype = "bool" -> (f = <<"True">>)
      [] dtype = "object" -> f[1]

read_csv(text) ==
    LET header == text[1]
        ncols == Len(header)
        nrows == Len(text) - 1
        dtype == [j \in 1..ncols |-> Inferred({text[i + 1][j] : i \in 1..nrows})]
        pos(c) == CHOOSE j \in 1..ncols : header[j][1] = c
        names == {header[j][1] : j \in 1..ncols}
    IN  [dtypes |-> [c \in names |-> dtype[pos(c)]],
         rows |-> [i \in 1..nrows |->
                      [c \in names |-> ParseCell(dtype[pos(c)], text[i + 1][pos(c)])]]]

\* the floats a and b agree to 4 decimal digits
Agree4(a, b) == 20000 * Abs(a[1] * b[2] - b[1] * a[2]) <= a[2] * b[2]

SameCell(dtype, a, b) == IF dtype = "float64" THEN Agree4(a, b) ELSE a = b

\* save_data has exported the combined data
Exported == ret.op = "save_data" /\ combined_data.kind = "frame"

\* C13: the CSV file that save_data writes of combined_data, parsed again,
\* has the same number of rows, the same channels of the same types, the
\* same driver code in every row and, for every row and channel, the same
\* value to at least 4 decimal digits.
C13_CsvRoundTrip ==
    Exported =>
        LET frame == frames[combined_data.ref]
            back == read_csv(csv)
        IN  /\ File(".", "f1_telemetry_comparison.csv") \in files
            /\ Len(back.rows) = Len(frame)
            /\ \A i \in 1..Len(frame) :
                   /\ DOMAIN back.rows[i] = DOMAIN frame[i]
                   /\ \A c \in DOMAIN frame[i] : back.dtypes[c] = DType(c)
                   /\ \A c \in DOMAIN frame[i] :
                          SameCell(DType(c), back.rows[i][c], frame[i][c])
                   /\ back.rows[i].Driver = frame[i].Driver

\* an export of rows of both drivers with the floats 0.0625 and -0.0625, which
\* need four digits after the point
C13_Witness ==
    /\ Exported
    /\ Len(csv) = Len(frames[combined_data.ref]) + 1
    /\ \E i, j, k \in 1..Len(frames[combined_data.ref]) :
           /\ frames[combined_data.ref][i].X = <<1, 16>>
           /\ csv[i + 1][4] = <<"0", ".", "0", "6", "2", "5">>
           /\ frames[combined_data.ref][j].X = <<-1, 16>>
           /\ frames[combined_data.ref][j].Brake
           /\ frames[combined_data.ref][k].Driver = DRIVER2

(***************************************************************************)
(* run_analysis: the output flags, the order of the stages, the folders.   *)
(***************************************************************************)
\* C14: when SHOW_PLOTS is False a run displays no plot on screen, neither
\* the matplotlib figure nor a Plotly figure, whatever SAVE_PLOTS is.
C14_ShowPlotsGates ==
    ~cfg.SHOW_PLOTS => shown = <<>>

PNG == File(".", "f1_speed_comparison.png")

\* the run has returned True
RunSucceeded == pc = "done" /\ ret.value = Bool(TRUE)

PlotStage ==
    \/ pc \in {"visualizer", "generate"}
    \/ ret.op \in {"plot_speed_comparison", "F1AdvancedVisualizer",
                   "generate_all_visualizations"}

\* C15: in a run whose comparison succeeded the CSV file is written if and
\* only if SAVE_CSV is True and the PNG if and only if SAVE_PLOTS is True;
\* with SAVE_PLOTS and SHOW_PLOTS both False no plot function is called, no
\* visualizer is constructed and no HTML file is written.
C15_SaveFlags ==
    /\ RunSucceeded =>
           /\ File(".", CSV_NAME) \in files <=> cfg.SAVE_CSV
           /\ PNG \in files <=> cfg.SAVE_PLOTS
    /\ File(".", CSV_NAME) \in files => cfg.SAVE_CSV
    /\ PNG \in files => cfg.SAVE_PLOTS
    /\ (~cfg.SAVE_PLOTS /\ ~cfg.SHOW_PLOTS) =>
           /\ ~PlotStage
           /\ visualizer = None
           /\ shown = <<>>
           /\ \A f \in files : f[1] # OUTPUT_DIR

\* a finished run that saved the CSV file but, SAVE_PLOTS being False, no PNG
C15_Witness ==
    /\ RunSucceeded
    /\ cfg = [SAVE_CSV |-> TRUE, SAVE_PLOTS |-> FALSE, SHOW_PLOTS |-> TRUE]
    /\ File(".", CSV_NAME) \in files
    /\ PNG \notin files
    /\ shown # <<>>

(***************************************************************************)
(* launch_dashboard: the browser thread.                                   *)
(***************************************************************************)
\* the answers that are y, yes or empty, whatever their case and the
\* whitespace around them
YesAnswers ==
    {<<>>, <<" ">>, <<"y">>, <<"Y">>, <<"y", "e", "s">>, <<" ", "Y", "E", "S", " ">>}

SaidYes == launcher.asked = "answered" /\ launcher.answer \in YesAnswers

\* C16: a launch spawns at most one background thread, only after the
\* dependency check has passed and only when the user's answer (lower-cased,
\* stripped) is y, yes or empty; the thread only waits the fixed delay and
\* requests one browser tab; with missing dependencies or any other answer
\* there is no thread and no tab; and the server is started in the main
\* thread whether or not the thread was spawned.
C16_BrowserThread ==
    /\ launcher.spawned <= 1
    /\ launcher.spawned = 1 <=> launcher.thread # "none"
    /\ launcher.spawned = 1 => (launcher.missing = {} /\ SaidYes)
    /\ (launcher.missing # {} \/ ~SaidYes) => (launcher.thread = "none" /\ launcher.tabs = 0)
    /\ launcher.tabs <= 1
    /\ launcher.tabs = 1 <=> launcher.thread = "done"
    /\ launcher.tabs = 1 => launcher.elapsed = BROWSER_DELAY
    /\ launcher.elapsed > 0 => launcher.thread # "none"
    /\ launcher.server \in {"none", "main"}
    /\ launcher.pc = "serving" => launcher.server = "main"
    /\ (launcher.pc = "exited" /\ launcher.asked \in {"answered", "interrupted"}) =>
           (launcher.server = "main" \/ launcher.exit \in {"import_error", "run_error"})

\* the server runs in the main thread and the browser thread, spawned on the
\* answer y, has opened its tab after the delay
C16_Witness ==
    /\ launcher.pc = "serving"
    /\ launcher.server = "main"
    /\ launcher.answer = <<"y">>
    /\ launcher.spawned = 1
    /\ launcher.thread = "done"
    /\ launcher.tabs = 1

(***************************************************************************)
(* The folders: the output folder of the visualizer, the cache.            *)
(***************************************************************************)
HtmlNames ==
    {"speed_distance_comparison.html", "track_position_speed.html", "gear_heatmap.html",
     "throttle_brake_analysis.html", "speed_delta.html", "comprehensive_dashboard.html"}

VisualizerOps ==
    {"create_speed_distance_plot", "create_track_position_plot", "create_gear_heatmap",
     "create_throttle_brake_analysis", "create_speed_delta_plot",
     "create_comprehensive_dashboard", "generate_all_visualizations"}

\* C17: every HTML file the visualizer writes is inside f1_visualizations, and
\* that folder exists from the construction of a F1AdvancedVisualizer on
\* (created if it was missing, left as it is if it was there), so before any
\* write.
C17_OutputFolder ==
    /\ \A f \in files : (f[2] \in HtmlNames \/ f[1] = OUTPUT_DIR) =>
           /\ f[1] = OUTPUT_DIR
           /\ f[2] \in HtmlNames
           /\ OUTPUT_DIR \in dirs
           /\ visualizer # None
    /\ ret.op \in VisualizerOps => \A f \in files : f[1] = OUTPUT_DIR
    /\ ret.op = "F1AdvancedVisualizer" => (~ret.raised /\ visualizer # None)
    /\ visualizer # None => OUTPUT_DIR \in dirs

\* a visualizer constructed where the folder was missing: the folder is there
C17_Witness ==
    /\ ret.op = "F1AdvancedVisualizer"
    /\ ret.args = <<FALSE>>
    /\ visualizer # None
    /\ OUTPUT_DIR \in dirs

(***************************************************************************)
(* run_analysis: the order of the stages.  ret is the last call made, so a *)
(* step that makes a call shows which call came before it.                 *)
(***************************************************************************)
Makes(op) == ret'.op = op /\ ret' # ret

After(ops) == ret.op \in ops

Succeeded == ret.value = Bool(TRUE)

StageOrder ==
    /\ Makes("load_session") => After({"none"})
    /\ Makes("compare_drivers") => (After({"load_session"}) /\ Succeeded)
    /\ Makes("get_comparison_summary") => (After({"compare_drivers"}) /\ Succeeded)
    /\ Makes("save_data") => (After({"get_comparison_summary"}) /\ shown = <<>>)
    /\ Makes("plot_speed_comparison") =>
           /\ After({"get_comparison_summary", "save_data"})
           /\ cfg.SAVE_CSV => File(".", CSV_NAME) \in files
           /\ shown = <<>>
    /\ Makes("F1AdvancedVisualizer") => After({"plot_speed_comparison"})
    /\ Makes("generate_all_visualizations") => After({"F1AdvancedVisualizer"})
    /\ Makes("run_analysis") =>
           /\ ret'.value \in {Bool(TRUE), Bool(FALSE)}
           /\ ret'.value = Bool(FALSE) <=>
                  (After({"load_session", "compare_drivers"}) /\ ~Succeeded)
           /\ ret'.value = Bool(TRUE) =>
                  After({"get_comparison_summary", "save_data",
                         "generate_all_visualizations"})

\* C18: in a run the session load completes before any lap retrieval, both
\* lap retrievals before the summary, the CSV export before every plot, a
\* stage is entered only if every earlier stage succeeded, and run_analysis
\* returns True exactly when the session load and the comparison succeeded.
C18_StageOrder == [][StageOrder]_vars

\* a run that went through every stage and returned True
C18_Witness ==
    /\ pc = "done"
    /\ ret.op = "run_analysis"
    /\ ret.value = Bool(TRUE)
    /\ session = Loaded
    /\ combined_data.kind = "frame"
    /\ File(".", CSV_NAME) \in files
    /\ HtmlFile("speed_delta.html") \in files
    /\ Len(shown) = 7

SetupOps == {"import f1_telemetry_analysis", "test_fastf1_basic"}

\* the last call set the cache up and succeeded
SetUp(r) ==
    /\ r.op \in SetupOps
    /\ ~r.raised
    /\ r.op = "test_fastf1_basic" => r.value = Bool(TRUE)

\* a step of the setup: the cache folder is there afterwards, nothing that
\* was there is gone, and a repeated setup changes nothing
SetupStep ==
    /\ SetUp(ret')
    /\ cache_dir \in dirs'
    /\ dirs \subseteq dirs'
    /\ files' = files
    /\ cache_dir \in dirs => dirs' = dirs
    /\ SetUp(ret) => (dirs' = dirs /\ ret'.args = <<TRUE>>)

\* C19: the cache setup is idempotent: after test_fastf1_basic or the import
\* of f1_telemetry_analysis the folder f1_cache exists whether or not it
\* existed before, an existing folder is never made anew or emptied, and a
\* second setup succeeds with the same result.
C19_CacheSetup == [][SetupStep]_vars

\* a setup that found the folder there with two files in it, both still there
C19_Witness ==
    /\ SetUp(ret)
    /\ ret.args = <<TRUE>>
    /\ cache_dir \in dirs
    /\ Cardinality(files) = 2
    /\ \A f \in files : f[1] = cache_dir

(***************************************************************************)
(* combined_data and the lap records it was made of.                       *)
(***************************************************************************)
\* combined holds the rows of tel1 and then those of tel2, each with its code
CombinedOf(combined, d1, d2) ==
    LET tel1 == frames[d1.telemetry]
        tel2 == frames[d2.telemetry]
    IN  /\ Len(combined) = Len(tel1) + Len(tel2)
        /\ \A i \in 1..Len(tel1) : RowOf(combined[i], tel1[i], d1.driver)
        /\ \A i \in 1..Len(tel2) : RowOf(combined[Len(tel1) + i], tel2[i], d2.driver)

\* C20: after any sequence of calls combined_data is None or the
\* concatenation of the telemetry of the current driver1_data and
\* driver2_data, so that after a compare_drivers that returned False nothing
\* exports or plots the data of an earlier comparison.
C20_CombinedCurrent ==
    combined_data # None =>
        /\ driver1_data.kind = "record"
        /\ driver2_data.kind = "record"
        /\ CombinedOf(frames[combined_data.ref], driver1_data, driver2_data)

(***************************************************************************)
(* The session a comparison runs on, and the calls that find no data.      *)
(***************************************************************************)
\* the last call was a load_session that returned False
LoadFailed == ret.op = "load_session" /\ ret.value = Bool(FALSE)

LoadedSessionOnly ==
    (LoadFailed /\ ret'.op = "compare_drivers") =>
        /\ ret'.value = Bool(FALSE)
        /\ ret'.printed = <<"No session loaded">>
        /\ ret'.calls = <<>>

\* C21: a compare_drivers that follows a load_session that returned False
\* (the lookup or the load failed, after an earlier successful load or not)
\* reports that no session is loaded and returns False, and makes no provider
\* call on the partially loaded or the previously loaded session.
C21_LoadedSessionOnly == [][LoadedSessionOnly]_vars

\* the messages get_fastest_lap_telemetry ends with: one of them is printed by
\* every lap retrieval
RetrievalMessages == {"Fastest lap", "Error getting telemetry"}

NoSessionCompare ==
    (session = None /\ Makes("compare_drivers")) =>
        /\ ret'.value = Bool(FALSE)
        /\ ~ret'.raised
        /\ ret'.calls = <<>>
        /\ \A i \in 1..Len(ret'.printed) : ret'.printed[i] \notin RetrievalMessages
        /\ UNCHANGED <<session, driver1_data, driver2_data, combined_data, frames>>

\* C22: compare_drivers on an analyzer with no session returns False, makes
\* no lap retrieval, and leaves session, driver1_data, driver2_data and
\* combined_data as they were.
C22_NoSessionCompare == [][NoSessionCompare]_vars

\* compare_drivers has returned False on an analyzer with no session, before
\* any load or after a load whose lookup failed
C22_Witness ==
    /\ ret.op = "compare_drivers"
    /\ session = None
    /\ ret.value = Bool(FALSE)
    /\ Printed("No session loaded")
    /\ driver1_data = None
    /\ combined_data = None

\* the last call returned the summary of two lap records
Summarised ==
    /\ ret.op = "get_comparison_summary"
    /\ ret.value.kind = "summary"

\* C23: on equal lap times get_comparison_summary reports a time difference
\* of 0 and names driver2 as the faster driver; driver1 is named exactly when
\* driver1's lap time is strictly smaller.
C23_TieNamesDriver2 ==
    Summarised =>
        /\ driver1_data.lap_time = driver2_data.lap_time =>
               /\ ret.value.time_difference_seconds = 0
               /\ ret.value.faster_driver = driver2_data.driver
        /\ ret.value.faster_driver = driver1_data.driver
               <=> driver1_data.lap_time < driver2_data.lap_time

\* the summary of two laps of 70 seconds each names driver2
C23_Witness ==
    /\ Summarised
    /\ driver1_data.lap_time = 70
    /\ driver2_data.lap_time = 70
    /\ driver1_data.driver = DRIVER1
    /\ ret.value.faster_driver = DRIVER2
    /\ ret.value.time_difference_seconds = 0

\* the figures generate_all_visualizations asks for
AllFigures ==
    {"speed_distance", "track_position", "gear_heatmap", "throttle_brake",
     "speed_delta", "dashboard"}

\* C24: generate_all_visualizations prints its success message only when all
\* six create_* visualizations produced a figure, and not when one of them
\* returned None for lack of data.
C24_SuccessOnlyIfAll ==
    (ret.op = "generate_all_visualizations"
        /\ Printed("All visualizations generated successfully")) =>
            /\ {shown[i] : i \in 1..Len(shown)} = AllFigures
            /\ ~Printed("No data available for plotting")
            /\ ~Printed("No driver data available for plotting")

\* the create_* methods whose data is combined_data, and those whose data is
\* the two lap records
CombinedPlots == {"create_speed_distance_plot", "create_throttle_brake_analysis"}
RecordPlots ==
    {"create_track_position_plot", "create_gear_heatmap", "create_speed_delta_plot",
     "create_comprehensive_dashboard"}

\* the HTML file and the figure of each create_* method
HtmlOf(op) ==
    CASE op = "create_speed_distance_plot" -> "speed_distance_comparison.html"
      [] op = "create_track_position_plot" -> "track_position_speed.html"
      [] op = "create_gear_heatmap" -> "gear_heatmap.html"
      [] op = "create_throttle_brake_analysis" -> "throttle_brake_analysis.html"
      [] op = "create_speed_delta_plot" -> "speed_delta.html"
      [] op = "create_comprehensive_dashboard" -> "comprehensive_dashboard.html"

\* the data the last create_* call needs is missing
DataMissing ==
    IF ret.op \in CombinedPlots THEN combined_data = None
    ELSE driver1_data = None \/ driver2_data = None

\* C25: a create_* visualization whose analyzer data is missing (combined_data
\* for the speed-distance and throttle/brake plots, a lap record for the
\* track, gear, speed-delta and dashboard plots) returns None, shows nothing
\* and writes no file; otherwise it returns the figure, and writes its HTML
\* file exactly when save_html is true.
C25_NoDataNoFigure ==
    ret.op \in CombinedPlots \cup RecordPlots =>
        /\ ~ret.raised
        /\ DataMissing =>
               /\ ret.value = None
               /\ shown = <<>>
               /\ files = {}
        /\ ~DataMissing =>
               /\ ret.value.kind = "figure"
               /\ shown = <<ret.value.name>>
               /\ files = IF ret.args[1] THEN {File(OUTPUT_DIR, HtmlOf(ret.op))} ELSE {}

\* a track plot asked for with save_html when only driver2's record is
\* missing: None, nothing shown, no file
C25_Witness ==
    /\ ret.op = "create_track_position_plot"
    /\ ret.args[1]
    /\ driver1_data.kind = "record"
    /\ driver2_data = None
    /\ ret.value = None
    /\ shown = <<>>
    /\ files = {}

(***************************************************************************)
(* The two traces of the speed-delta figure.                               *)
(***************************************************************************)
\* how many of the grid points lo..hi have a delta >= 0
NonNegative(delta, lo, hi) == Cardinality({i \in lo..hi : delta[i][1] >= 0})

\* the grid points lo..hi are dealt out in their order: those of delta >= 0
\* to pos from its index p on, the others to neg from its index q on
RECURSIVE Dealt(_, _, _, _, _, _, _, _)
Dealt(grid, delta, pos, neg, lo, hi, p, q) ==
    IF lo = hi
    THEN IF delta[lo][1] >= 0
         THEN p <= Len(pos.x) /\ pos.x[p] = grid[lo] /\ pos.y[p] = delta[lo]
         ELSE q <= Len(neg.x) /\ neg.x[q] = grid[lo] /\ neg.y[q] = delta[lo]
    ELSE LET mid == (lo + hi) \div 2
             n == NonNegative(delta, lo, mid)
         IN  /\ Dealt(grid, delta, pos, neg, lo, mid, p, q)
             /\ Dealt(grid, delta, pos, neg, mid + 1, hi, p + n, q + (mid - lo + 1) - n)

\* C27: every grid point of the speed-delta plot is in exactly one of the two
\* traces: the points of delta >= 0, delta exactly 0 among them, in the
\* 'driver1 faster' trace and the points of delta < 0 in the 'driver2 faster'
\* trace, each once and none twice.
C27_TracesPartition ==
    DeltaPlotted =>
        LET pos == ret.value.data[1]
            neg == ret.value.data[2]
        IN  /\ Len(ret.value.data) = 2
            /\ pos.name = <<driver1_data.driver, "faster">>
            /\ neg.name = <<driver2_data.driver, "faster">>
            /\ Len(pos.x) = Len(pos.y)
            /\ Len(neg.x) = Len(neg.y)
            /\ Len(pos.x) + Len(neg.x) = Len(ret.value.common_distance)
            /\ \A j \in 1..Len(pos.y) : pos.y[j][1] >= 0
            /\ \A j \in 1..Len(neg.y) : neg.y[j][1] < 0
            /\ Dealt(ret.value.common_distance, ret.value.speed_delta, pos, neg,
                     1, Len(ret.value.common_distance), 1, 1)

\* a plot with grid points of delta exactly 0 and grid points of delta < 0:
\* both traces have points
C27_Witness ==
    /\ DeltaPlotted
    /\ \E i \in 1..Len(ret.value.speed_delta) : ret.value.speed_delta[i][1] = 0
    /\ \E i \in 1..Len(ret.value.speed_delta) : ret.value.speed_delta[i][1] < 0
    /\ Len(ret.value.data[1].x) > 0
    /\ Len(ret.value.data[2].x) > 0

\* the four attributes of the analyzer, and the rows of the DataFrames they
\* refer to, are after the step what they were before it
AnalyzerKept ==
    /\ UNCHANGED <<session, driver1_data, driver2_data, combined_data>>
    /\ \A k \in 1..3 :
           LET refs == RefsOf(<<driver1_data, driver2_data, combined_data>>[k])
           IN  Len(refs) > 0 => frames'[refs[1]] = frames[refs[1]]

NothingToSave ==
    /\ ret'.op = "save_data" =>
           /\ files' # {} => combined_data # None
           /\ combined_data = None =>
                  /\ ret'.printed = <<"No data to save">>
                  /\ ~ret'.raised
                  /\ files' = {}
                  /\ csv' = <<>>
                  /\ AnalyzerKept
    /\ (ret'.op = "get_comparison_summary"
            /\ (driver1_data = None \/ driver2_data = None)) =>
           /\ ret'.value = None
           /\ ~ret'.raised
           /\ AnalyzerKept

\* C28: save_data writes a file only when combined_data is not None; before
\* any successful comparison it prints 'No data to save', writes no file and
\* leaves the analyzer as it was; get_comparison_summary returns None and
\* leaves the analyzer as it was when a lap record is missing.
C28_NothingToSave == [][NothingToSave]_vars

\* save_data has found no combined data on an analyzer whose only comparison
\* failed for driver2
C28_Witness ==
    /\ ret.op = "save_data"
    /\ session = Loaded
    /\ driver1_data.kind = "record"
    /\ driver2_data = None
    /\ combined_data = None
    /\ Printed("No data to save")
    /\ files = {}

(***************************************************************************)
(* The viewer: what an input denotes, said by how numbers are written.     *)
(***************************************************************************)
Repeat(c, k) == [i \in 1..k |-> c]

\* the numbers an input of the model can denote
Numbers == (0 - 20)..20

\* the text denotes the integer k: blanks, a sign, zeros, the digits, blanks
Denotes(text, k) ==
    \E a, z, b \in 0..Len(text) : \E sign \in {<<>>, <<"+">>, <<"-">>} :
        /\ text = Repeat(" ", a) \o sign \o Repeat("0", z) \o NatStr(Abs(k)) \o Repeat(" ", b)
        /\ IF sign = <<"-">> THEN k <= 0 ELSE k >= 0

\* the HTML files of the output folder
HtmlInFolder == {f[2] : f \in {g \in files : g[1] = OUTPUT_DIR /\ g[2] \in HtmlNames}}

\* the step is a turn of the loop on an input
Chose == viewer.pc = "prompt" /\ viewer'.asked = "answered"
             /\ viewer'.prompts = viewer.prompts + 1

ViewerStep ==
    LET n == Len(viewer.html_files)
        text == viewer'.choice
    IN  /\ (viewer.pc = "start" /\ viewer'.pc # "start") =>
               IF OUTPUT_DIR \notin dirs \/ HtmlInFolder = {}
               THEN /\ viewer'.pc = "exited"
                    /\ viewer'.prompts = 0
                    /\ viewer'.opened = <<>>
               ELSE /\ viewer'.pc = "prompt"
                    /\ Len(viewer'.html_files) = Cardinality(HtmlInFolder)
                    /\ {viewer'.html_files[i] : i \in 1..Len(viewer'.html_files)}
                           = HtmlInFolder
        /\ viewer.pc = "prompt" => viewer.opened = <<>>
        /\ Chose =>
               /\ ((\A k \in Numbers : ~Denotes(text, k))
                      \/ (\E k \in Numbers \ (1..(n + 2)) : Denotes(text, k))) =>
                      /\ viewer'.opened = <<>>
                      /\ viewer'.pc = "prompt"
               /\ \A k \in 1..n : Denotes(text, k) =>
                      /\ viewer'.opened = <<viewer.html_files[k]>>
                      /\ viewer'.pc = "exited"
               /\ Denotes(text, n + 1) =>
                      /\ viewer'.opened = viewer.html_files
                      /\ viewer'.pc = "exited"
               /\ Denotes(text, n + 2) =>
                      /\ viewer'.opened = <<>>
                      /\ viewer'.pc = "exited"
        /\ (viewer.pc = "prompt" /\ viewer'.asked = "interrupted") =>
               /\ viewer'.opened = <<>>
               /\ viewer'.pc = "exited"

\* C26: in the viewer with n listed files an input that is no number or is
\* outside 1..n+2 opens nothing and is followed by another prompt; choice k
\* in 1..n opens the k-th listed file and nothing else, choice n+1 opens
\* every listed file once in the listed order, choice n+2 opens nothing; the
\* loop ends after the first valid choice or a keyboard interrupt, and
\* without an output folder or an HTML file in it the viewer returns without
\* a prompt.
C26_ViewerChoices == [][ViewerStep]_vars

\* three files listed; after an input that was turned down, ' 4 ' (Open All)
\* has opened the three of them in the listed order and ended the loop
C26_Witness ==
    /\ viewer.pc = "exited"
    /\ viewer.prompts = 2
    /\ viewer.asked = "answered"
    /\ viewer.choice = <<" ", "4", " ">>
    /\ Len(viewer.html_files) = 3
    /\ viewer.opened = viewer.html_files
    /\ File(OUTPUT_DIR, "speed_delta.html.bak") \in files

====
